---- MODULE Spec2Model ----
(***************************************************************************)
(* Model of the parser package of scrapbox2notion (internal/parser):       *)
(* tag extraction and the Scrapbox -> markdown translation.                *)
(*                                                                         *)
(* A Go string is a sequence of one-character strings; byte offsets are    *)
(* 0-based as in Go, and strings.Index answers -1 when nothing is found.   *)
(* A run-time panic of a function is the value Panic.                      *)
(***************************************************************************)
EXTENDS Integers, Sequences, FiniteSets, TLC

VARIABLES
    file,         \* the export file ParseFile is given: what it holds
    title,        \* page.Title
    lines,        \* page.Lines, each element the line's Text
    linksLc,      \* page.LinksLc
    tags,         \* page.Tags
    pc,           \* position of the program: parse, convert, loop, done, panic
    i,            \* loop index of ConvertToMarkdown (1-based; Go's i + 1)
    md,           \* the strings.Builder md
    codeBlock,    \* var codeBlock bool
    codeLanguage, \* var codeLanguage string
    codeContent,  \* var codeContent []string
    units,        \* history: what each md.WriteString of the loop wrote, and from which lines
    disp,         \* history: which branch of the loop took each line
    codeStart,    \* history: index of the line where the buffered block began, 0 if none
    op,           \* direct calls of the line functions: which function was called
    text,         \* direct calls: the line given
    links,        \* direct calls: the link targets given
    ret,          \* direct calls: the value returned
    docs,         \* concurrent translations: the page each goroutine was given
    frames,       \* concurrent translations: the local variables of each invocation
    ctags,        \* CreatePage: the argument tags
    ncall,        \* CreatePage: how many calls were started
    npc,          \* CreatePage: the position inside the call, idle between calls
    tagIdx,       \* CreatePage: the index of tag in the loop over tags (1-based)
    tagDB,        \* CreatePage: the variable tagDB, 0 for nil
    errs,         \* CreatePage: what each call returned, nil or error
    dbs,          \* the Notion workspace: its databases and their pages
    root,         \* the Notion workspace: the pages under the parent page
    calls,        \* history: the requests sent to the Notion API and their answers
    reflected,    \* history: the workspace showed every object when the current call began
    export,       \* the parser's field p.export
    given,        \* the file the last call of ParseFile was given: what it holds
    before,       \* history: what GetPages returned before the last call of ParseFile
    perr,         \* what the last call of ParseFile returned: nil, read or json; none before
    nparse,       \* how many calls of ParseFile were made on the parser
    pageList,     \* main: pages := p.GetPages()
    mpc,          \* main: the position in the loop over pages, off when main is not run
    pageIdx,      \* main: the index of page in the loop (1-based)
    markdown,     \* main: the variable markdown
    successCount, \* main: successCount
    steps,        \* history: the calls main made for each page and whether they succeeded
    report,       \* main: the fields of the final log entry, <<>> before it is written
    outcome       \* main: how ConvertToMarkdown ends on each page of the export, a pure function

pageVars == <<title, lines, linksLc, tags>>
convVars == <<pc, i, md, codeBlock, codeLanguage, codeContent, units, disp, codeStart>>
callVars == <<op, text, links, ret>>
parVars == <<docs, frames>>
notionVars == <<ctags, ncall, npc, tagIdx, tagDB, errs, dbs, root, calls, reflected>>
parserVars == <<export, given, before, perr, nparse>>
mainVars == <<pageList, mpc, pageIdx, markdown, successCount, steps, report, outcome>>
vars == <<title, lines, linksLc, tags, pc, i, md, codeBlock, codeLanguage, codeContent,
          units, disp, codeStart, op, text, links, ret, docs, frames, file,
          ctags, ncall, npc, tagIdx, tagDB, errs, dbs, root, calls, reflected,
          export, given, before, perr, nparse, pageList, mpc, pageIdx, markdown, successCount, steps,
          report, outcome>>

-----------------------------------------------------------------------------
(* Bounds of the model *)

\* most lines of a page
MaxLines == 3
\* most tokens of a line given directly to a line function
MaxTokens == 4

-----------------------------------------------------------------------------
(* Characters and the Go string functions the parser uses *)

NL == "\n"
TAB == "\t"
SP == " "
BSL == "\\"

\* unicode.IsSpace, restricted to the characters that occur
WhiteSpace == {SP, TAB, NL, "\r"}

\* what a panicking call yields instead of a string
Panic == <<"PANIC">>

Min(S) == CHOOSE x \in S : \A y \in S : x <= y

\* s[a:b]
Slice(s, a, b) == SubSeq(s, a + 1, b)

\* s[a:]
SliceFrom(s, a) == SubSeq(s, a + 1, Len(s))

\* strings.HasPrefix
HasPrefix(s, p) == Len(s) >= Len(p) /\ SubSeq(s, 1, Len(p)) = p

\* strings.HasSuffix
HasSuffix(s, p) == Len(s) >= Len(p) /\ SubSeq(s, Len(s) - Len(p) + 1, Len(s)) = p

\* strings.Index
Index(s, sub) ==
    LET hits == {k \in 0..(Len(s) - Len(sub)) : SubSeq(s, k + 1, k + Len(sub)) = sub}
    IN  IF hits = {} THEN -1 ELSE Min(hits)

\* strings.TrimLeft(s, cutset)
RECURSIVE TrimLeft(_, _)
TrimLeft(s, cutset) ==
    IF s # <<>> /\ Head(s) \in cutset THEN TrimLeft(Tail(s), cutset) ELSE s

\* strings.TrimRight(s, cutset), the right half of strings.TrimSpace
RECURSIVE TrimRight(_, _)
TrimRight(s, cutset) ==
    IF s # <<>> /\ s[Len(s)] \in cutset
    THEN TrimRight(SubSeq(s, 1, Len(s) - 1), cutset)
    ELSE s

\* strings.TrimSpace
TrimSpace(s) == TrimRight(TrimLeft(s, WhiteSpace), WhiteSpace)

\* strings.TrimPrefix
TrimPrefix(s, p) == IF HasPrefix(s, p) THEN SliceFrom(s, Len(p)) ELSE s

\* strings.TrimSuffix
TrimSuffix(s, p) == IF HasSuffix(s, p) THEN SubSeq(s, 1, Len(s) - Len(p)) ELSE s

\* strings.Count(s, c) for a one-character c
Count(s, c) == Cardinality({k \in 1..Len(s) : s[k] = c})

\* strings.Repeat
RECURSIVE Repeat(_, _)
Repeat(s, n) == IF n <= 0 THEN <<>> ELSE s \o Repeat(s, n - 1)

\* strings.Join
RECURSIVE Join(_, _)
Join(ss, sep) ==
    IF ss = <<>> THEN <<>>
    ELSE IF Len(ss) = 1 THEN ss[1]
    ELSE ss[1] \o sep \o Join(Tail(ss), sep)

\* strings.ReplaceAll, left to right without overlap
RECURSIVE ReplaceAll(_, _, _)
ReplaceAll(s, old, new) ==
    IF s = <<>> THEN <<>>
    ELSE IF HasPrefix(s, old) THEN new \o ReplaceAll(SliceFrom(s, Len(old)), old, new)
    ELSE <<Head(s)>> \o ReplaceAll(Tail(s), old, new)

\* strings.Fields: the maximal runs of non-space characters
RECURSIVE Fields(_)
Fields(s) ==
    LET t == TrimLeft(s, WhiteSpace)
        stops == {k \in 1..Len(t) : t[k] \in WhiteSpace}
        n == IF stops = {} THEN Len(t) ELSE Min(stops) - 1
    IN  IF t = <<>> THEN <<>>
        ELSE <<SubSeq(t, 1, n)>> \o Fields(SubSeq(t, n + 1, Len(t)))

\* unicode.ToLower on the letters that occur
LowerChar(c) == IF c = "A" THEN "a" ELSE IF c = "B" THEN "b" ELSE c

\* strings.ToLower
ToLower(s) == [k \in 1..Len(s) |-> LowerChar(s[k])]

\* strings.EqualFold
EqualFold(s, t) == ToLower(s) = ToLower(t)

\* the literals of the source
Hash == <<"#">>
CodePrefix == <<"c", "o", "d", "e", ":">>
\* the backquote character, which a TLA+ string cannot hold
BQ == "BQ"
Fence == <<BQ, BQ, BQ>>

-----------------------------------------------------------------------------
(* The functions of the parser *)

\* a variant of WordTags that strips every leading # of a word
RECURSIVE WordTagsStripAll(_)
WordTagsStripAll(words) ==
    IF words = <<>> THEN <<>>
    ELSE LET word == Head(words)
             tag == TrimLeft(word, {"#"})
         IN  (IF HasPrefix(word, Hash) /\ tag # <<>> THEN <<tag>> ELSE <<>>)
                 \o WordTagsStripAll(Tail(words))

\* extractTags: the tags of one line (the inner loop over strings.Fields)
RECURSIVE WordTags(_)
WordTags(words) ==
    IF words = <<>> THEN <<>>
    ELSE LET word == Head(words)
             tag == TrimPrefix(word, Hash)
         IN  (IF HasPrefix(word, Hash) /\ tag # <<>> THEN <<tag>> ELSE <<>>)
                 \o WordTags(Tail(words))

\* extractTags: the value stored in page.Tags
RECURSIVE extractTags(_)
extractTags(ls) ==
    IF ls = <<>> THEN <<>>
    ELSE WordTags(Fields(Head(ls))) \o extractTags(Tail(ls))

\* replaceEnclosed: the LaTeX backslashes of the content
EnclosedContent(prefix, content) ==
    IF prefix = <<"[", "$", SP>> THEN ReplaceAll(content, <<BSL, BSL>>, <<BSL>>) ELSE content

\* replaceEnclosed, once startIdx and endIdx are known
ReplaceSpan(t, prefix, mdPrefix, mdSuffix, startIdx, endIdx) ==
    Slice(t, 0, startIdx) \o mdPrefix
        \o EnclosedContent(prefix, Slice(t, startIdx + Len(prefix), endIdx))
        \o mdSuffix \o SliceFrom(t, endIdx + 1)

\* replaceEnclosed, from endIdx := strings.Index(text[startIdx:], suffix) on
ReplaceTo(t, prefix, mdPrefix, mdSuffix, startIdx, endIdx) ==
    IF endIdx = -1 THEN t
    ELSE ReplaceSpan(t, prefix, mdPrefix, mdSuffix, startIdx, endIdx + startIdx)

\* replaceEnclosed, from startIdx := strings.Index(text, prefix) on
ReplaceFrom(t, prefix, suffix, mdPrefix, mdSuffix, startIdx) ==
    IF startIdx = -1 THEN t
    ELSE ReplaceTo(t, prefix, mdPrefix, mdSuffix, startIdx,
                   Index(SliceFrom(t, startIdx), suffix))

\* a variant of replaceEnclosed that goes on to the next span of the same style
replaceEnclosedTwice(t, prefix, suffix, mdPrefix, mdSuffix) ==
    ReplaceFrom(ReplaceFrom(t, prefix, suffix, mdPrefix, mdSuffix, Index(t, prefix)),
                prefix, suffix, mdPrefix, mdSuffix,
                Index(ReplaceFrom(t, prefix, suffix, mdPrefix, mdSuffix, Index(t, prefix)),
                      prefix))

\* replaceEnclosed
replaceEnclosed(t, prefix, suffix, mdPrefix, mdSuffix) ==
    ReplaceFrom(t, prefix, suffix, mdPrefix, mdSuffix, Index(t, prefix))

\* a variant of FirstLink that compares the link and linkId exactly
RECURSIVE FirstLinkExact(_, _)
FirstLinkExact(ls, linkId) ==
    IF ls = <<>> THEN <<>>
    ELSE IF Head(ls) = linkId THEN <<Head(ls)>>
    ELSE FirstLinkExact(Tail(ls), linkId)

\* the loop of convertPageLinks over links: the first link that folds to linkId
RECURSIVE FirstLink(_, _)
FirstLink(ls, linkId) ==
    IF ls = <<>> THEN <<>>
    ELSE IF EqualFold(Head(ls), linkId) THEN <<Head(ls)>>
    ELSE FirstLink(Tail(ls), linkId)

\* convertPageLinks: the return inside the loop, or the text unchanged
LinkReplace(t, startIdx, endIdx, linkText, hit) ==
    IF hit = <<>> THEN t
    ELSE Slice(t, 0, startIdx)
             \o <<"[">> \o linkText \o <<"]", "(", ".", "/">>
             \o hit[1] \o <<".", "m", "d", ")">>
             \o SliceFrom(t, endIdx + 1)

\* convertPageLinks: linkText, linkId and the loop
LinkSpan(t, ls, startIdx, endIdx, linkText) ==
    LinkReplace(t, startIdx, endIdx, linkText,
                FirstLink(ls, ToLower(ReplaceAll(linkText, <<SP>>, <<"_">>))))

\* convertPageLinks, from endIdx := strings.Index(text[startIdx:], "]") on
LinkTo(t, ls, startIdx, endIdx) ==
    IF endIdx = -1 THEN t
    ELSE LinkSpan(t, ls, startIdx, endIdx + startIdx,
                  Slice(t, startIdx + 1, endIdx + startIdx))

\* convertPageLinks: the reserved openers
IsReserved(rest) ==
    \/ HasPrefix(rest, <<"[", "-", SP>>)
    \/ HasPrefix(rest, <<"[", "*", SP>>)
    \/ HasPrefix(rest, <<"[", "$", SP>>)
    \/ HasPrefix(rest, <<"[", "*", "*">>)
    \/ HasPrefix(rest, <<"[", "/", SP>>)

\* a variant of LinkFrom that passes over a reserved opener and goes on to the next [
RECURSIVE LinkFromSkipping(_, _, _)
LinkFromSkipping(t, ls, startIdx) ==
    IF startIdx = -1 THEN t
    ELSE IF IsReserved(SliceFrom(t, startIdx))
    THEN IF Index(SliceFrom(t, startIdx + 1), <<"[">>) = -1 THEN t
         ELSE LinkFromSkipping(t, ls, startIdx + 1 + Index(SliceFrom(t, startIdx + 1), <<"[">>))
    ELSE LinkTo(t, ls, startIdx, Index(SliceFrom(t, startIdx), <<"]">>))

\* convertPageLinks, from startIdx := strings.Index(text, "[") on
LinkFrom(t, ls, startIdx) ==
    IF startIdx = -1 THEN t
    ELSE IF IsReserved(SliceFrom(t, startIdx)) THEN t
    ELSE LinkTo(t, ls, startIdx, Index(SliceFrom(t, startIdx), <<"]">>))

\* convertPageLinks
convertPageLinks(t, ls) == LinkFrom(t, ls, Index(t, <<"[">>))

\* a variant of convertExternalLinks that wraps every text that starts with http
convertExternalLinksAnyHttp(t) ==
    IF HasPrefix(t, <<"h", "t", "t", "p">>)
    THEN <<"!", "[", "i", "m", "a", "g", "e", "]", "(">> \o t \o <<")">>
    ELSE t

\* convertExternalLinks
convertExternalLinks(t) ==
    IF HasPrefix(t, <<"h", "t", "t", "p">>)
       /\ (HasSuffix(t, <<".", "j", "p", "g">>) \/ HasSuffix(t, <<".", "p", "n", "g">>)
           \/ HasSuffix(t, <<".", "g", "i", "f">>) \/ HasSuffix(t, <<".", "j", "p", "e", "g">>))
    THEN <<"!", "[", "i", "m", "a", "g", "e", "]", "(">> \o t \o <<")">>
    ELSE t

\* a variant of HeadingLevel that takes the asterisk count as the depth
HeadingLevelDirect(level) == level

\* convertSyntax, the switch on level
HeadingLevel(level) ==
    IF level = 2 THEN 4
    ELSE IF level = 3 THEN 3
    ELSE IF level = 4 THEN 2
    ELSE 4

\* convertSyntax, the heading branch once level is known
HeadingOf(t, level) ==
    Repeat(Hash, HeadingLevel(level)) \o <<SP>>
        \o TrimSuffix(TrimPrefix(t, <<"[">> \o Repeat(<<"*">>, level) \o <<SP>>), <<"]">>)

\* convertSyntax, the heading branch from text[:sp] on; text[:-1] panics
HeadingFrom(t, sp) ==
    IF sp = -1 THEN Panic ELSE HeadingOf(t, Count(Slice(t, 0, sp), "*"))

\* convertSyntax, the heading branch
convertHeading(t) == HeadingFrom(t, Index(t, <<SP>>))

\* a variant of convertStyles that converts bold before strikethrough
convertStylesBoldFirst(t) ==
    replaceEnclosed(
        replaceEnclosed(
            replaceEnclosed(
                replaceEnclosed(t, <<"[", "*", SP>>, <<"]">>, <<"*", "*">>, <<"*", "*">>),
                <<"[", "-", SP>>, <<"]">>, <<"~", "~">>, <<"~", "~">>),
            <<"[", "/", SP>>, <<"]">>, <<"_">>, <<"_">>),
        <<"[", "$", SP>>, <<"]">>, <<"$">>, <<"$">>)

\* convertSyntax, the four replaceEnclosed calls in their order
convertStyles(t) ==
    replaceEnclosed(
        replaceEnclosed(
            replaceEnclosed(
                replaceEnclosed(t, <<"[", "-", SP>>, <<"]">>, <<"~", "~">>, <<"~", "~">>),
                <<"[", "*", SP>>, <<"]">>, <<"*", "*">>, <<"*", "*">>),
            <<"[", "/", SP>>, <<"]">>, <<"_">>, <<"_">>),
        <<"[", "$", SP>>, <<"]">>, <<"$">>, <<"$">>)

\* a variant of convertLinks that forgets the backtick test
convertLinksAlways(s, ls) == convertExternalLinks(convertPageLinks(s, ls))

\* convertSyntax, from the backtick test on
convertLinks(s, ls) ==
    IF HasPrefix(s, <<BQ>>) /\ HasSuffix(s, <<BQ>>) THEN s
    ELSE convertExternalLinks(convertPageLinks(s, ls))

\* a variant of convertSyntax that sends the heading through the style and link steps too
convertSyntaxThrough(t, ls) ==
    IF HasPrefix(t, <<"[", "*", "*">>) THEN convertLinks(convertStyles(convertHeading(t)), ls)
    ELSE convertLinks(convertStyles(t), ls)

\* convertSyntax
convertSyntax(t, ls) ==
    IF HasPrefix(t, <<"[", "*", "*">>) THEN convertHeading(t)
    ELSE convertLinks(convertStyles(t), ls)

\* convertLineToMarkdown, the loop counting leading spaces and tabs
RECURSIVE IndentLevel(_)
IndentLevel(line) ==
    IF line # <<>> /\ Head(line) \in {SP, TAB} THEN 1 + IndentLevel(Tail(line)) ELSE 0

\* a variant of Bullet that indents by the full level
BulletDeep(indentLevel, line) == Repeat(<<SP, SP>>, indentLevel) \o <<"-", SP>> \o line

\* convertLineToMarkdown, the bullet prefix
Bullet(indentLevel, line) == Repeat(<<SP, SP>>, indentLevel - 1) \o <<"-", SP>> \o line

\* convertLineToMarkdown, after line = p.convertSyntax(line, links)
Indented(indentLevel, conv) ==
    IF conv = Panic THEN Panic
    ELSE IF indentLevel > 0 THEN Bullet(indentLevel, conv)
    ELSE conv

\* convertLineToMarkdown
convertLineToMarkdown(line, ls) ==
    IF line = <<>> THEN <<>>
    ELSE Indented(IndentLevel(line), convertSyntax(TrimLeft(line, {SP, TAB}), ls))

\* ConvertToMarkdown: fmt.Sprintf("# %s\n\n", page.Title)
TitleHeading(t) == <<"#", SP>> \o t \o <<NL, NL>>

\* ConvertToMarkdown: the fmt.Sprintf of the fenced block: codeLanguage, strings.Join(codeContent, "\n")
FencedBlock(language, content) ==
    Fence \o language \o <<NL>> \o Join(content, <<NL>>) \o <<NL>> \o Fence \o <<NL>>

\* a variant of CodeLine that keeps the indentation
CodeLineKept(line) == line

\* ConvertToMarkdown: strings.TrimLeft(line.Text, " \t"), a body line of a code block
CodeLine(line) == TrimLeft(line, {SP, TAB})

\* a variant of BodyLine without the newline
BodyLineBare(mdLine) == mdLine

\* ConvertToMarkdown: mdLine + "\n"
BodyLine(mdLine) == mdLine \o <<NL>>

\* a variant of WriteString that writes at the front
WriteStringFront(b, s) == s \o b

\* md.WriteString
WriteString(b, s) == b \o s

\* a variant of IsTitleLine that forgets i == 0
IsTitleAnywhere(k) == lines[k] = title

\* ConvertToMarkdown: the conditions of the loop body, in the order of the code
IsTitleLine(k) == k = 1 /\ lines[k] = title
\* a variant of IsTagLine that looks at the raw text, without trimming it
IsTagLineUntrimmed(k) == HasPrefix(lines[k], Hash)
IsTagLine(k) == HasPrefix(TrimSpace(lines[k]), Hash)
IsCodeLine(k) == HasPrefix(TrimSpace(lines[k]), CodePrefix)
IsIndented(k) == HasPrefix(lines[k], <<SP>>) \/ HasPrefix(lines[k], <<TAB>>)
CodeLanguageOf(k) == TrimSpace(TrimPrefix(lines[k], CodePrefix))

-----------------------------------------------------------------------------
(* The pages and lines the model is run on *)

RECURSIVE Concat(_)
Concat(ss) == IF ss = <<>> THEN <<>> ELSE Head(ss) \o Concat(Tail(ss))

\* the sequences of at most n elements of S
SeqUpTo(S, n) == UNION {[1..m -> S] : m \in 0..n}

TitleT == <<"t">>
TitleCode == CodePrefix \o <<"j">>
Titles == {TitleT, TitleCode}

LineSet ==
    { <<>>,                                   \* an empty line
      TitleT,                                 \* a line equal to a title
      TitleCode,                              \* code:j, which is a title too
      <<"[", "a", "]", SP, "#", "g">>,        \* a page link and a tag token
      <<SP, "[", "*", SP, "b", "]">>,         \* indented once, with a bold span
      <<TAB, SP, "a">>,                       \* indented twice
      <<SP, SP>>,                             \* only spaces
      <<"#", "g">>,                           \* a tag line
      <<SP, "#", "h", SP, "#", "g">>,         \* an indented tag line with two tags
      <<"#">>,                                \* a tag line without a tag
      <<"#", "#", "g", TAB, "a", "#", "g">>,  \* a doubled # and a # inside a word
      <<SP>> \o CodePrefix \o <<"p">>,        \* an indented code: line
      <<"[", "*", "*", "x", "]">> }           \* a heading opener with no space

Pages == SeqUpTo(LineSet, MaxLines)

PageLinks == <<<<"a">>>>

\* no link target, or three of which two differ only in case
LinkSets == {<<>>, << <<"A", "_", "b">>, <<"a">>, <<"a", "_", "b">> >>}

StyleTokens ==
    { <<"[", "-", SP>>, <<"[", "*", SP>>, <<"[", "/", SP>>, <<"[", "$", SP>>,
      <<"a">>, <<"]">>, <<BSL, BSL>> }

HeadingTokens ==
    { <<"[", "*", "*">>, <<"*">>, <<"*", "*">>, <<SP>>, <<SP, "a", "]">>, <<"]">>,
      <<"[", "*", SP, "a", "]">>, <<"[", "a", "]">> }

IndentTokens == { <<SP>>, <<TAB>>, <<"a">>, <<"[", "*", SP, "a", "]">>, <<"[", "*", "*">> }

LinkTokens ==
    { <<"[", "a", "]">>, <<"[", "A", SP, "b", "]">>, <<"[", "x", "]">>, <<"[", "A">>,
      <<"]">>, <<"a">> }

\* what may stand before, inside and at the end of an image address
ImageHeads == { <<>>, <<"h", "t", "t", "p">>, <<"a", "h", "t", "t", "p">>, <<"H", "t", "t", "p">> }
ImageMids == { <<>>, <<"a">>, <<"[", "a", "]">>, <<"[">> }
ImageTails ==
    { <<>>, <<".", "j", "p", "g">>, <<".", "p", "n", "g">>, <<".", "g", "i", "f">>,
      <<".", "j", "p", "e", "g">>, <<".", "J", "P", "G">>, <<".", "j", "p", "g", "a">> }

ImageLines == {h \o m \o t : h \in ImageHeads, m \in ImageMids, t \in ImageTails}

\* whole spans of the four styles
SpanTokens ==
    { <<"[", "-", SP, "a", "]">>, <<"[", "*", SP, "a", "]">>, <<"[", "/", SP, "a", "]">>,
      <<"[", "$", SP, BSL, BSL, "]">>, <<"a">> }

\* backquotes around links and styles
VerbatimTokens == { <<BQ>>, <<"[", "a", "]">>, <<"[", "*", SP, "a", "]">>, <<"a">>, <<SP>> }

TokLines(T) == {Concat(f) : f \in SeqUpTo(T, MaxTokens)}

DirectLines ==
    TokLines(StyleTokens) \cup TokLines(HeadingTokens) \cup TokLines(IndentTokens)
        \cup TokLines(LinkTokens) \cup TokLines(SpanTokens) \cup TokLines(VerbatimTokens)
        \cup ImageLines

-----------------------------------------------------------------------------
(* cmd/main.go on one page: ParseFile, then ConvertToMarkdown line by line *)

Idle == op = "idle" /\ text = <<>> /\ links = <<>> /\ ret = <<>>

\* no concurrent translation is running
NoPar == docs = <<>> /\ frames = <<>>

\* a parser as New returns it: p.export is nil
NilExport == [isNil |-> TRUE, Pages |-> <<>>]

\* no file
NoFile == [kind |-> "none", pages |-> <<>>]

\* no call of ParseFile was made on the parser
NoParser ==
    export = NilExport /\ given = NoFile /\ before = <<>> /\ perr = "none" /\ nparse = 0

\* the loop of main over the pages is not run
NoMain ==
    /\ pageList = <<>> /\ mpc = "off" /\ pageIdx = 0 /\ markdown = <<>> /\ successCount = 0
    /\ steps = <<>> /\ report = <<>> /\ outcome = <<>>

\* no Notion client is in use
NoNotion ==
    /\ ctags = <<>> /\ ncall = 0 /\ npc = "off" /\ tagIdx = 0 /\ tagDB = 0 /\ errs = <<>>
    /\ dbs = <<>> /\ root = <<>> /\ calls = <<>> /\ reflected = FALSE

\* the export files: one that cannot be read, one that is not JSON, one whose page has
\* a title, one whose page has no title field
Files == {"unreadable", "malformed", "ok", "untitled"}

\* what json.Unmarshal stores in page.Title and page.Lines; an absent field leaves ""
Decoded ==
    \/ file = "ok" /\ title \in Titles /\ lines \in Pages
    \/ file = "untitled" /\ title = <<>> /\ lines \in Pages
    \/ file \in {"unreadable", "malformed"} /\ title = <<>> /\ lines = <<>>

Init ==
    /\ file \in Files
    /\ Decoded
    /\ linksLc = PageLinks
    /\ tags = <<>>
    /\ pc = "parse"
    /\ i = 0
    /\ md = <<>>
    /\ codeBlock = FALSE
    /\ codeLanguage = <<>>
    /\ codeContent = <<>>
    /\ units = <<>>
    /\ disp = <<>>
    /\ codeStart = 0
    /\ Idle
    /\ NoPar
    /\ NoNotion
    /\ NoParser
    /\ NoMain

\* ParseFile: os.ReadFile or json.Unmarshal returns an error
ParseFails(f) == f \in {"unreadable", "malformed"}

\* ParseFile returns an error, and main exits
ParseFileError ==
    /\ pc = "parse"
    /\ ParseFails(file)
    /\ pc' = "exit"
    /\ UNCHANGED <<file, parserVars, mainVars, parVars, notionVars, title, lines, linksLc, tags, i, md, codeBlock, codeLanguage,
                   codeContent, units, disp, codeStart, op, text, links, ret>>

\* ParseFile: extractTags on the page
ParseFile ==
    /\ pc = "parse"
    /\ ~ParseFails(file)
    /\ tags' = extractTags(lines)
    /\ pc' = "convert"
    /\ UNCHANGED <<file, parserVars, mainVars, parVars, notionVars, title, lines, linksLc, i, md, codeBlock, codeLanguage, codeContent,
                   units, disp, codeStart, op, text, links, ret>>

\* ConvertToMarkdown up to the loop: the title heading
ConvertStart ==
    /\ pc = "convert"
    /\ md' = WriteString(<<>>, TitleHeading(title))
    /\ i' = 1
    /\ pc' = "loop"
    /\ UNCHANGED <<file, parserVars, mainVars, parVars, notionVars, title, lines, linksLc, tags, codeBlock, codeLanguage, codeContent,
                   units, disp, codeStart, op, text, links, ret>>

InLoop == pc = "loop" /\ i <= Len(lines)

\* the records of the history
LineUnit(mdLine, k) == [kind |-> "line", text |-> mdLine, content |-> <<>>, lo |-> k, hi |-> k]
BlockUnit(language, content, from, to) ==
    [kind |-> "block", text |-> language, content |-> content, lo |-> from, hi |-> to]

\* if i == 0 && line.Text == page.Title { continue }
SkipTitle ==
    /\ InLoop
    /\ IsTitleLine(i)
    /\ i' = i + 1
    /\ disp' = Append(disp, "title")
    /\ UNCHANGED <<file, parserVars, mainVars, parVars, notionVars, title, lines, linksLc, tags, pc, md, codeBlock, codeLanguage, codeContent,
                   units, codeStart, op, text, links, ret>>

\* if strings.HasPrefix(strings.TrimSpace(line.Text), "#") { continue }
SkipTag ==
    /\ InLoop
    /\ ~IsTitleLine(i)
    /\ IsTagLine(i)
    /\ i' = i + 1
    /\ disp' = Append(disp, "tag")
    /\ UNCHANGED <<file, parserVars, mainVars, parVars, notionVars, title, lines, linksLc, tags, pc, md, codeBlock, codeLanguage, codeContent,
                   units, codeStart, op, text, links, ret>>

\* if strings.HasPrefix(strings.TrimSpace(line.Text), "code:") { ...; continue }
CodeEntry ==
    /\ InLoop
    /\ ~IsTitleLine(i)
    /\ ~IsTagLine(i)
    /\ IsCodeLine(i)
    /\ codeBlock' = TRUE
    /\ codeLanguage' = CodeLanguageOf(i)
    /\ codeStart' = IF codeBlock THEN codeStart ELSE i
    /\ i' = i + 1
    /\ disp' = Append(disp, "code")
    /\ UNCHANGED <<file, parserVars, mainVars, parVars, notionVars, title, lines, linksLc, tags, pc, md, codeContent, units,
                   op, text, links, ret>>

\* if codeBlock { if indented { codeContent = append(...); continue } }
CodeBody ==
    /\ InLoop
    /\ ~IsTitleLine(i)
    /\ ~IsTagLine(i)
    /\ ~IsCodeLine(i)
    /\ codeBlock
    /\ IsIndented(i)
    /\ codeContent' = Append(codeContent, CodeLine(lines[i]))
    /\ i' = i + 1
    /\ disp' = Append(disp, "body")
    /\ UNCHANGED <<file, parserVars, mainVars, parVars, notionVars, title, lines, linksLc, tags, pc, md, codeBlock, codeLanguage,
                   units, codeStart, op, text, links, ret>>

\* a variant of EmitsLine that forgets mdLine != ""
EmitsAlways(mdLine) == mdLine # Panic

\* if mdLine != "", for a call that returned
EmitsLine(mdLine) == mdLine # Panic /\ mdLine # <<>>

\* if mdLine != "" { md.WriteString(mdLine + "\n") }, on the builder b; a panic leaves b
WriteMdLine(b, mdLine) ==
    IF EmitsLine(mdLine) THEN WriteString(b, BodyLine(mdLine)) ELSE b

\* the history of that write, on the history u
NoteMdLine(u, mdLine) ==
    IF EmitsLine(mdLine) THEN Append(u, LineUnit(mdLine, i)) ELSE u

\* the end of the loop body, on builder b and history u, for
\* mdLine := p.convertLineToMarkdown(line.Text, page.LinksLc); a panic ends the program
WriteLine(b, u, mdLine, how) ==
    /\ md' = WriteMdLine(b, mdLine)
    /\ units' = NoteMdLine(u, mdLine)
    /\ pc' = IF mdLine = Panic THEN "panic" ELSE pc
    /\ i' = IF mdLine = Panic THEN i ELSE i + 1
    /\ disp' = IF mdLine = Panic THEN disp ELSE Append(disp, how)

\* a variant of ExitLine that drops the line that ended the block
ExitLineSkipped(line, ls) == <<>>

\* after the else branch of if codeBlock there is no continue: the line goes on to
\* mdLine := p.convertLineToMarkdown(line.Text, page.LinksLc)
ExitLine(line, ls) == convertLineToMarkdown(line, ls)

\* a variant of ExitBlock that writes nothing when the buffer is empty
ExitBlockUnlessEmpty(language, content) ==
    IF content = <<>> THEN <<>> ELSE FencedBlock(language, content)

\* md.WriteString(fmt.Sprintf(...)) in the else branch of if codeBlock: no test of codeContent
ExitBlock(language, content) == FencedBlock(language, content)

\* if codeBlock { else: write the block, reset }, then the line as a normal line
CodeExit ==
    /\ InLoop
    /\ ~IsTitleLine(i)
    /\ ~IsTagLine(i)
    /\ ~IsCodeLine(i)
    /\ codeBlock
    /\ ~IsIndented(i)
    /\ codeBlock' = FALSE
    /\ codeContent' = <<>>
    /\ codeLanguage' = <<>>
    /\ codeStart' = 0
    /\ WriteLine(WriteString(md, ExitBlock(codeLanguage, codeContent)),
                 Append(units, BlockUnit(codeLanguage, codeContent, codeStart, i - 1)),
                 ExitLine(lines[i], linksLc), "exit")
    /\ UNCHANGED <<file, parserVars, mainVars, parVars, notionVars, title, lines, linksLc, tags, op, text, links, ret>>

\* a line outside a code block
NormalLine ==
    /\ InLoop
    /\ ~IsTitleLine(i)
    /\ ~IsTagLine(i)
    /\ ~IsCodeLine(i)
    /\ ~codeBlock
    /\ WriteLine(md, units, convertLineToMarkdown(lines[i], linksLc), "line")
    /\ UNCHANGED <<file, parserVars, mainVars, parVars, notionVars, title, lines, linksLc, tags, codeBlock, codeLanguage, codeContent,
                   codeStart, op, text, links, ret>>

\* a variant of Remaining that forgets len(codeContent) > 0
RemainingAlways(block, content) == block

\* if codeBlock && len(codeContent) > 0
Remaining(block, content) == block /\ Len(content) > 0

\* after the loop: if codeBlock && len(codeContent) > 0 { write the block }; return
ConvertFinish ==
    /\ pc = "loop"
    /\ i > Len(lines)
    /\ IF Remaining(codeBlock, codeContent)
       THEN /\ md' = WriteString(md, FencedBlock(codeLanguage, codeContent))
            /\ units' = Append(units, BlockUnit(codeLanguage, codeContent, codeStart, Len(lines)))
       ELSE UNCHANGED <<md, units>>
    /\ pc' = "done"
    /\ UNCHANGED <<file, parserVars, mainVars, parVars, notionVars, title, lines, linksLc, tags, i, codeBlock, codeLanguage, codeContent,
                   disp, codeStart, op, text, links, ret>>

Next ==
    \/ ParseFileError
    \/ ParseFile
    \/ ConvertStart
    \/ SkipTitle
    \/ SkipTag
    \/ CodeEntry
    \/ CodeBody
    \/ CodeExit
    \/ NormalLine
    \/ ConvertFinish

Spec == Init /\ [][Next]_vars

-----------------------------------------------------------------------------
(* The line functions called on one line, as parser_test.go calls them *)

NoPage ==
    /\ file = "none"
    /\ title = <<>> /\ lines = <<>> /\ linksLc = <<>> /\ tags = <<>>
    /\ pc = "call" /\ i = 0 /\ md = <<>>
    /\ codeBlock = FALSE /\ codeLanguage = <<>> /\ codeContent = <<>>
    /\ units = <<>> /\ disp = <<>> /\ codeStart = 0

InitCall ==
    /\ NoPage
    /\ op = "idle"
    /\ text \in DirectLines
    /\ links \in LinkSets
    /\ ret = <<>>
    /\ NoPar
    /\ NoNotion
    /\ NoParser
    /\ NoMain

\* p.convertLineToMarkdown(tt.line, tt.links)
CallConvertLineToMarkdown ==
    /\ op = "idle"
    /\ op' = "convertLineToMarkdown"
    /\ ret' = convertLineToMarkdown(text, links)
    /\ UNCHANGED <<file, parserVars, mainVars, parVars, notionVars, title, lines, linksLc, tags, pc, i, md, codeBlock, codeLanguage,
                   codeContent, units, disp, codeStart, text, links>>

\* the call line = p.convertSyntax(line, links) inside convertLineToMarkdown
CallConvertSyntax ==
    /\ op = "idle"
    /\ text # <<>>
    /\ op' = "convertSyntax"
    /\ ret' = convertSyntax(TrimLeft(text, {SP, TAB}), links)
    /\ UNCHANGED <<file, parserVars, mainVars, parVars, notionVars, title, lines, linksLc, tags, pc, i, md, codeBlock, codeLanguage,
                   codeContent, units, disp, codeStart, text, links>>

\* convertSyntax reaches its last two calls: no heading, and no backtick-quoted text
ReachesLinks(t, s) ==
    /\ ~HasPrefix(t, <<"[", "*", "*">>)
    /\ ~(HasPrefix(s, <<BQ>>) /\ HasSuffix(s, <<BQ>>))

PageLinksCall(t, s) ==
    /\ ReachesLinks(t, s)
    /\ ret' = convertPageLinks(s, links)

\* the call text = p.convertPageLinks(text, links) inside convertSyntax
CallConvertPageLinks ==
    /\ op = "idle"
    /\ text # <<>>
    /\ op' = "convertPageLinks"
    /\ PageLinksCall(TrimLeft(text, {SP, TAB}), convertStyles(TrimLeft(text, {SP, TAB})))
    /\ UNCHANGED <<file, parserVars, mainVars, parVars, notionVars, title, lines, linksLc, tags, pc, i, md, codeBlock, codeLanguage,
                   codeContent, units, disp, codeStart, text, links>>

ExternalLinksCall(t, s) ==
    /\ ReachesLinks(t, s)
    /\ ret' = convertExternalLinks(convertPageLinks(s, links))

\* the call text = p.convertExternalLinks(text) inside convertSyntax
CallConvertExternalLinks ==
    /\ op = "idle"
    /\ text # <<>>
    /\ op' = "convertExternalLinks"
    /\ ExternalLinksCall(TrimLeft(text, {SP, TAB}), convertStyles(TrimLeft(text, {SP, TAB})))
    /\ UNCHANGED <<file, parserVars, mainVars, parVars, notionVars, title, lines, linksLc, tags, pc, i, md, codeBlock, codeLanguage,
                   codeContent, units, disp, codeStart, text, links>>

NextCall ==
    \/ CallConvertLineToMarkdown
    \/ CallConvertSyntax
    \/ CallConvertPageLinks
    \/ CallConvertExternalLinks

SpecCall == InitCall /\ [][NextCall]_vars

-----------------------------------------------------------------------------
(* ConvertToMarkdown called by several goroutines at once, each on its own page *)

\* most lines of a page translated concurrently
MaxParLines == 2

Procs == {1, 2}

ParLines ==
    { CodePrefix \o <<"j">>,                  \* a code: line
      <<SP, "[", "*", SP, "b", "]">>,         \* indented once, with a bold span
      <<"[", "a", "]", SP, "#", "g">>,        \* a page link and a tag token
      <<"[", "*", "*", "x", "]">> }           \* a heading opener with no space

\* the pages of p.export.Pages that are handed out
ParPages ==
    {[title |-> TitleT, lines |-> ls, linksLc |-> PageLinks, tags |-> extractTags(ls)] :
        ls \in SeqUpTo(ParLines, MaxParLines)}

\* the local variables of ConvertToMarkdown when it is entered
InitFrame ==
    [pc |-> "convert", i |-> 0, md |-> <<>>, codeBlock |-> FALSE, codeLanguage |-> <<>>,
     codeContent |-> <<>>]

\* the end of the loop body on the frame f and the builder b; a panic ends the program
Written(f, b, mdLine) ==
    IF mdLine = Panic THEN [f EXCEPT !.pc = "panic", !.md = b]
    ELSE [f EXCEPT !.md = WriteMdLine(b, mdLine), !.i = f.i + 1]

\* the loop body of ConvertToMarkdown on the frame f, for the line at index f.i
StepLine(f, doc, line) ==
    IF f.i = 1 /\ line = doc.title THEN [f EXCEPT !.i = f.i + 1]
    ELSE IF HasPrefix(TrimSpace(line), Hash) THEN [f EXCEPT !.i = f.i + 1]
    ELSE IF HasPrefix(TrimSpace(line), CodePrefix)
    THEN [f EXCEPT !.codeBlock = TRUE,
                   !.codeLanguage = TrimSpace(TrimPrefix(line, CodePrefix)),
                   !.i = f.i + 1]
    ELSE IF f.codeBlock /\ (HasPrefix(line, <<SP>>) \/ HasPrefix(line, <<TAB>>))
    THEN [f EXCEPT !.codeContent = Append(f.codeContent, CodeLine(line)), !.i = f.i + 1]
    ELSE IF f.codeBlock
    THEN Written([f EXCEPT !.codeBlock = FALSE, !.codeContent = <<>>, !.codeLanguage = <<>>],
                 WriteString(f.md, FencedBlock(f.codeLanguage, f.codeContent)),
                 convertLineToMarkdown(line, doc.linksLc))
    ELSE Written(f, f.md, convertLineToMarkdown(line, doc.linksLc))

\* after the loop: the remaining code block, and the return
Returned(f) ==
    [f EXCEPT !.pc = "done",
              !.md = IF f.codeBlock /\ Len(f.codeContent) > 0
                     THEN WriteString(f.md, FencedBlock(f.codeLanguage, f.codeContent))
                     ELSE f.md]

\* one step of ConvertToMarkdown on the frame f: the title heading, one line, or the return
StepFrame(f, doc) ==
    IF f.pc = "convert"
    THEN [f EXCEPT !.pc = "loop", !.i = 1, !.md = WriteString(<<>>, TitleHeading(doc.title))]
    ELSE IF f.i <= Len(doc.lines) THEN StepLine(f, doc, doc.lines[f.i])
    ELSE Returned(f)

\* ConvertToMarkdown run alone on doc, from the frame f to its return or its panic
RECURSIVE RunAlone(_, _)
RunAlone(f, doc) ==
    IF f.pc \in {"done", "panic"} THEN f ELSE RunAlone(StepFrame(f, doc), doc)

\* a variant of FrameOf in which the variables of ConvertToMarkdown are shared
FrameShared(fs, p) == fs[1]

\* the variables md, codeBlock, codeLanguage, codeContent and i of invocation p
FrameOf(fs, p) == fs[p]

InitPar ==
    /\ NoPage
    /\ Idle
    /\ NoNotion
    /\ NoParser
    /\ NoMain
    /\ docs \in [Procs -> ParPages]
    /\ frames = [p \in Procs |-> InitFrame]

\* goroutine p runs ConvertToMarkdown one step further
ParStep(p) ==
    /\ \A q \in Procs : frames[q].pc # "panic"
    /\ frames[p].pc # "done"
    /\ frames' = [frames EXCEPT ![p] = StepFrame(FrameOf(frames, p), docs[p])]
    /\ UNCHANGED <<file, parserVars, mainVars, pageVars, convVars, callVars, notionVars, docs>>

NextPar == \E p \in Procs : ParStep(p)

SpecPar == InitPar /\ [][NextPar]_vars

-----------------------------------------------------------------------------
(* internal/notion: CreatePage called twice with the same title and tags *)

\* most tags of a page
MaxTags == 2

\* the argument title
PageTitle == <<"t">>

TagNames == { <<"g">>, <<"g", "h">> }

\* an object of the workspace; a search or query shows it once it is indexed
Obj(name) == [title |-> name, indexed |-> TRUE]
Database(name, pages) == [title |-> name, indexed |-> TRUE, pages |-> pages]

\* the workspaces CreatePage may meet
Workspaces ==
    { <<>>,
      << Database(<<"g", "h">>, <<>>) >>,
      << Database(<<"g">>, <<>>) >>,
      << Database(<<"g", "h">>, <<>>), Database(<<"g">>, << Obj(PageTitle) >>) >> }

ParentPages == { <<>>, << Obj(PageTitle) >>, << Obj(<<"t", "x">>) >> }

\* the answer of the workspace to a search for databases: those indexed whose title
\* holds the query, each with its id, in the order of their creation
RECURSIVE DatabasesFrom(_, _, _)
DatabasesFrom(ds, n, query) ==
    IF n > Len(ds) THEN <<>>
    ELSE (IF ds[n].indexed /\ Index(ds[n].title, query) # -1
          THEN << [id |-> n, title |-> ds[n].title] >> ELSE <<>>)
             \o DatabasesFrom(ds, n + 1, query)

\* the indexed pages of ps whose title holds the query
RECURSIVE PagesHolding(_, _)
PagesHolding(ps, query) ==
    IF ps = <<>> THEN <<>>
    ELSE (IF Head(ps).indexed /\ Index(Head(ps).title, query) # -1
          THEN <<Head(ps).title>> ELSE <<>>)
             \o PagesHolding(Tail(ps), query)

\* the indexed pages of ps whose Name equals name
RECURSIVE PagesNamed(_, _)
PagesNamed(ps, name) ==
    IF ps = <<>> THEN <<>>
    ELSE (IF Head(ps).indexed /\ Head(ps).title = name THEN <<Head(ps).title>> ELSE <<>>)
             \o PagesNamed(Tail(ps), name)

\* the answer of the workspace to a search for pages: under the parent and in the databases
RECURSIVE PagesOfDatabases(_, _)
PagesOfDatabases(ds, query) ==
    IF ds = <<>> THEN <<>>
    ELSE PagesHolding(Head(ds).pages, query) \o PagesOfDatabases(Tail(ds), query)

\* validateTagsDatabase: the id of the first result whose title is the tag, 0 for nil
RECURSIVE validateTagsDatabase(_, _)
validateTagsDatabase(tag, results) ==
    IF results = <<>> THEN 0
    ELSE IF Head(results).title = tag THEN Head(results).id
    ELSE validateTagsDatabase(tag, Tail(results))

\* a variant of NoExistingPages that creates the page whatever the query answers
NoExistingPagesAlways(results) == TRUE

\* if len(existingPages.Results) == 0
NoExistingPages(results) == Len(results) = 0

\* a variant of NoSearchResults that creates the page whatever the search answers
NoSearchResultsAlways(results) == TRUE

\* if len(resp.Results) == 0
NoSearchResults(results) == Len(results) = 0

\* every object of the workspace is indexed
RECURSIVE AllIndexed(_)
AllIndexed(os) == os = <<>> \/ (Head(os).indexed /\ AllIndexed(Tail(os)))

RECURSIVE AllReflected(_)
AllReflected(ds) ==
    ds = <<>> \/ (Head(ds).indexed /\ AllIndexed(Head(ds).pages) /\ AllReflected(Tail(ds)))

Indexed(os) == [n \in 1..Len(os) |-> [os[n] EXCEPT !.indexed = TRUE]]

\* a request to the Notion API and its answer
Request(api, arg, db, ok, found) ==
    [call |-> ncall, api |-> api, arg |-> arg, db |-> db, ok |-> ok, found |-> found]

InitNotion ==
    /\ NoPage
    /\ Idle
    /\ NoPar
    /\ NoParser
    /\ NoMain
    /\ ctags \in SeqUpTo(TagNames, MaxTags)
    /\ ncall = 0
    /\ npc = "idle"
    /\ tagIdx = 0
    /\ tagDB = 0
    /\ errs = <<>>
    /\ dbs \in Workspaces
    /\ root \in ParentPages
    /\ calls = <<>>
    /\ reflected = FALSE

\* the positions a step of CreatePage leads to
Goto(p) == npc' = p /\ UNCHANGED <<errs, tagIdx>>

Return(err) == npc' = "idle" /\ errs' = Append(errs, err) /\ UNCHANGED tagIdx

\* the end of the loop body: the next tag, or return nil
NextTag ==
    IF tagIdx < Len(ctags)
    THEN npc' = "search" /\ tagIdx' = tagIdx + 1 /\ UNCHANGED errs
    ELSE Return("nil")

\* CreatePage is called: the first time, or once more with the same title and tags
StartCall ==
    /\ npc = "idle"
    /\ ncall < 2
    /\ ncall' = ncall + 1
    /\ npc' = IF Len(ctags) = 0 THEN "searchpage" ELSE "search"
    /\ tagIdx' = IF Len(ctags) = 0 THEN 0 ELSE 1
    /\ tagDB' = 0
    /\ reflected' = (AllReflected(dbs) /\ AllIndexed(root))
    /\ UNCHANGED <<file, parserVars, mainVars, pageVars, convVars, callVars, parVars, ctags, errs, dbs, root, calls>>

\* the search for the database of the tag has answered results
SearchedDatabase(results) ==
    /\ calls' = Append(calls, Request("Search database", ctags[tagIdx], 0, TRUE, results))
    /\ tagDB' = validateTagsDatabase(ctags[tagIdx], results)
    /\ Goto(IF validateTagsDatabase(ctags[tagIdx], results) = 0 THEN "createdb" ELSE "query")

\* results, err := c.client.Search().Do(ctx, query); tagDB := validateTagsDatabase(...)
SearchDatabase ==
    /\ npc = "search"
    /\ \E ok \in BOOLEAN :
         IF ok THEN SearchedDatabase(DatabasesFrom(dbs, 1, ctags[tagIdx]))
         ELSE /\ calls' = Append(calls, Request("Search database", ctags[tagIdx], 0, FALSE, <<>>))
              /\ Return("error")
              /\ UNCHANGED tagDB
    /\ UNCHANGED <<file, parserVars, mainVars, pageVars, convVars, callVars, parVars, ctags, ncall, dbs, root,
                   reflected>>

\* tagDB, err = c.createDatabase(ctx, tag, ...)
CreateDatabase ==
    /\ npc = "createdb"
    /\ \E ok \in BOOLEAN :
         /\ calls' = Append(calls, Request("Database.Create", ctags[tagIdx], 0, ok, <<>>))
         /\ IF ok
            THEN /\ dbs' = Append(dbs, [title |-> ctags[tagIdx], indexed |-> FALSE,
                                        pages |-> <<>>])
                 /\ tagDB' = Len(dbs) + 1
                 /\ Goto("confirmdb")
            ELSE /\ Return("error")
                 /\ UNCHANGED <<dbs, tagDB>>
    /\ UNCHANGED <<file, parserVars, mainVars, pageVars, convVars, callVars, parVars, ctags, ncall, root, reflected>>

\* the loop of at most ten searches for the created database: it shows up, or it does not
ConfirmDatabase ==
    /\ npc = "confirmdb"
    /\ \E exists \in BOOLEAN :
         /\ calls' = Append(calls, Request("Confirm database", ctags[tagIdx], tagDB, exists, <<>>))
         /\ IF exists
            THEN /\ dbs' = [dbs EXCEPT ![tagDB].indexed = TRUE]
                 /\ Goto("query")
            ELSE /\ Return("error")
                 /\ UNCHANGED dbs
    /\ UNCHANGED <<file, parserVars, mainVars, pageVars, convVars, callVars, parVars, ctags, ncall, tagDB, root,
                   reflected>>

\* the query of the database has answered results
QueriedDatabase(results) ==
    /\ calls' = Append(calls, Request("Database.Query", PageTitle, tagDB, TRUE, results))
    /\ IF NoExistingPages(results) THEN Goto("createpage") ELSE NextTag

\* existingPages, err := c.client.Database().Query(ctx, tagDB.ID, pageQuery)
QueryDatabase ==
    /\ npc = "query"
    /\ \E ok \in BOOLEAN :
         IF ok THEN QueriedDatabase(PagesNamed(dbs[tagDB].pages, PageTitle))
         ELSE /\ calls' = Append(calls, Request("Database.Query", PageTitle, tagDB, FALSE, <<>>))
              /\ Return("error")
    /\ UNCHANGED <<file, parserVars, mainVars, pageVars, convVars, callVars, parVars, ctags, ncall, tagDB, dbs, root,
                   reflected>>

\* page, err := c.client.Page().Create(ctx, pageParams), the parent being tagDB
CreatePageInDatabase ==
    /\ npc = "createpage"
    /\ \E ok \in BOOLEAN :
         /\ calls' = Append(calls, Request("Page.Create", PageTitle, tagDB, ok, <<>>))
         /\ IF ok
            THEN /\ dbs' = [dbs EXCEPT ![tagDB].pages =
                               Append(@, [title |-> PageTitle, indexed |-> FALSE])]
                 /\ Goto("getpage")
            ELSE /\ Return("error")
                 /\ UNCHANGED dbs
    /\ UNCHANGED <<file, parserVars, mainVars, pageVars, convVars, callVars, parVars, ctags, ncall, tagDB, root,
                   reflected>>

\* the loop of at most five c.client.Page().Get: the page is there, or it is not
ConfirmPage ==
    /\ npc = "getpage"
    /\ \E exists \in BOOLEAN :
         /\ calls' = Append(calls, Request("Page.Get", PageTitle, tagDB, exists, <<>>))
         /\ IF exists THEN NextTag ELSE Return("error")
    /\ UNCHANGED <<file, parserVars, mainVars, pageVars, convVars, callVars, parVars, ctags, ncall, tagDB, dbs, root,
                   reflected>>

\* the search for pages has answered results
SearchedPage(results) ==
    /\ calls' = Append(calls, Request("Search page", PageTitle, 0, TRUE, results))
    /\ IF NoSearchResults(results) THEN Goto("createparent") ELSE Return("nil")

\* if len(tags) == 0 { resp, err := c.client.Search().Do(ctx, req) ... }
SearchPage ==
    /\ npc = "searchpage"
    /\ \E ok \in BOOLEAN :
         IF ok THEN SearchedPage(PagesHolding(root, PageTitle) \o PagesOfDatabases(dbs, PageTitle))
         ELSE /\ calls' = Append(calls, Request("Search page", PageTitle, 0, FALSE, <<>>))
              /\ Return("error")
    /\ UNCHANGED <<file, parserVars, mainVars, pageVars, convVars, callVars, parVars, ctags, ncall, tagDB, dbs, root,
                   reflected>>

\* _, err := c.client.Page().Create(ctx, pageParams), the parent being c.parentID
CreatePageUnderParent ==
    /\ npc = "createparent"
    /\ \E ok \in BOOLEAN :
         /\ calls' = Append(calls, Request("Page.Create", PageTitle, 0, ok, <<>>))
         /\ IF ok
            THEN /\ root' = Append(root, [title |-> PageTitle, indexed |-> FALSE])
                 /\ Return("nil")
            ELSE /\ Return("error")
                 /\ UNCHANGED root
    /\ UNCHANGED <<file, parserVars, mainVars, pageVars, convVars, callVars, parVars, ctags, ncall, tagDB, dbs,
                   reflected>>

\* the workspace catches up: every object shows in searches and queries
Reflect ==
    /\ ~(AllReflected(dbs) /\ AllIndexed(root))
    /\ dbs' = [n \in 1..Len(dbs) |->
                 [dbs[n] EXCEPT !.indexed = TRUE, !.pages = Indexed(dbs[n].pages)]]
    /\ root' = Indexed(root)
    /\ UNCHANGED <<file, parserVars, mainVars, pageVars, convVars, callVars, parVars, ctags, ncall, npc, tagIdx,
                   tagDB, errs, calls, reflected>>

NextNotion ==
    \/ StartCall
    \/ SearchDatabase
    \/ CreateDatabase
    \/ ConfirmDatabase
    \/ QueryDatabase
    \/ CreatePageInDatabase
    \/ ConfirmPage
    \/ SearchPage
    \/ CreatePageUnderParent
    \/ Reflect

SpecNotion == InitNotion /\ [][NextNotion]_vars

-----------------------------------------------------------------------------
(* internal/parser: ParseFile called several times on one parser, GetPages after each *)

\* most calls of ParseFile on one parser
MaxParses == 3
\* most pages of an export file
MaxPages == 2

\* the one line of a page of an export: a link and a tag, a heading opener with no
\* space, a code: line
ExportLines ==
    { <<"[", "a", "]", SP, "#", "g">>, <<"[", "*", "*", "x", "]">>, CodePrefix \o <<"j">> }

\* the pages as json.Unmarshal stores them: Tags is not yet set
RawPages ==
    {[title |-> TitleT, lines |-> <<l>>, linksLc |-> PageLinks, tags |-> <<>>] : l \in ExportLines}

\* the export files: one that cannot be read, one that is not JSON, files whose JSON holds
\* a value of the wrong type beside the pages, and files that decode without error
ExportFiles ==
    {[kind |-> k, pages |-> <<>>] : k \in {"unreadable", "malformed"}}
        \cup {[kind |-> k, pages |-> ps] : k \in {"mistyped", "ok"}, ps \in SeqUpTo(RawPages, MaxPages)}

\* for i := range p.export.Pages { p.extractTags(&p.export.Pages[i]) }
Tagged(ps) == [n \in 1..Len(ps) |-> [ps[n] EXCEPT !.tags = extractTags(ps[n].lines)]]

\* what ParseFile returns for the file f
ParseError(f) ==
    IF f.kind = "unreadable" THEN "read"
    ELSE IF f.kind \in {"malformed", "mistyped"} THEN "json"
    ELSE "nil"

\* ParseFile: p.export when it returns. os.ReadFile fails before p.export is touched;
\* p.export = &models.ScrapboxExport{} comes before json.Unmarshal, which stores nothing
\* for a syntax error and all it can decode for a value of the wrong type
ExportAfter(e, f) ==
    IF f.kind = "unreadable" THEN e
    ELSE IF f.kind \in {"malformed", "mistyped"} THEN [isNil |-> FALSE, Pages |-> f.pages]
    ELSE [isNil |-> FALSE, Pages |-> Tagged(f.pages)]

\* GetPages; a nil slice is the empty sequence
GetPages(e) == IF e.isNil THEN <<>> ELSE e.Pages

InitParser ==
    /\ NoPage
    /\ Idle
    /\ NoPar
    /\ NoNotion
    /\ NoParser
    /\ NoMain

\* p.ParseFile(filepath), and what p.GetPages() returned just before it
CallParseFile ==
    /\ nparse < MaxParses
    /\ \E f \in ExportFiles :
           /\ given' = f
           /\ export' = ExportAfter(export, f)
           /\ perr' = ParseError(f)
    /\ before' = GetPages(export)
    /\ nparse' = nparse + 1
    /\ UNCHANGED <<file, pageVars, convVars, callVars, parVars, notionVars, mainVars>>

NextParser == CallParseFile

SpecParser == InitParser /\ [][NextParser]_vars

-----------------------------------------------------------------------------
(* cmd/main.go: the loop over the pages of the export *)

\* main after p.ParseFile and notion.New have returned without error
InitMain ==
    /\ NoPage
    /\ Idle
    /\ NoPar
    /\ NoNotion
    /\ given \in {f \in ExportFiles : f.kind = "ok"}
    /\ export = ExportAfter(NilExport, given)
    /\ before = <<>>
    /\ perr = "nil"
    /\ nparse = 1
    /\ pageList = <<>>
    /\ mpc = "pages"
    /\ pageIdx = 0
    /\ markdown = <<>>
    /\ successCount = 0
    /\ steps = <<>>
    /\ report = <<>>
    /\ outcome = [n \in 1..Len(given.pages) |-> RunAlone(InitFrame, Tagged(given.pages)[n])]

\* what main did for the page at index n
Step(n, call, ok) == [page |-> n, call |-> call, ok |-> ok]

\* pages := p.GetPages(); successCount := 0; for _, page := range pages
MainGetPages ==
    /\ mpc = "pages"
    /\ pageList' = GetPages(export)
    /\ successCount' = 0
    /\ pageIdx' = 1
    /\ mpc' = IF GetPages(export) = <<>> THEN "log" ELSE "convert"
    /\ UNCHANGED <<file, pageVars, convVars, callVars, parVars, notionVars, parserVars,
                   markdown, steps, report, outcome>>

\* continue, and the end of the loop body: the next page, or the end of the loop
NextPage ==
    /\ pageIdx' = pageIdx + 1
    /\ mpc' = IF pageIdx < Len(pageList) THEN "convert" ELSE "log"

\* markdown := p.ConvertToMarkdown(&page); a panic ends the program
MainConvert ==
    /\ mpc = "convert"
    /\ mpc' = IF outcome[pageIdx].pc = "panic" THEN "panic" ELSE "write"
    /\ steps' = Append(steps, Step(pageIdx, "ConvertToMarkdown", outcome[pageIdx].pc # "panic"))
    /\ markdown' = IF outcome[pageIdx].pc = "panic" THEN markdown ELSE outcome[pageIdx].md
    /\ UNCHANGED <<file, pageVars, convVars, callVars, parVars, notionVars, parserVars,
                   pageList, pageIdx, successCount, report, outcome>>

\* if err := os.WriteFile(...); err != nil { ...; continue }
MainWriteFile ==
    /\ mpc = "write"
    /\ \E ok \in BOOLEAN :
           /\ steps' = Append(steps, Step(pageIdx, "WriteFile", ok))
           /\ IF ok THEN mpc' = "create" /\ UNCHANGED pageIdx ELSE NextPage
    /\ UNCHANGED <<file, pageVars, convVars, callVars, parVars, notionVars, parserVars,
                   pageList, markdown, successCount, report, outcome>>

\* if err := notionClient.CreatePage(...); err != nil { ...; continue }; successCount++
Counted(count, ok) == IF ok THEN count + 1 ELSE count

\* the call of CreatePage and the end of the loop body
MainCreatePage ==
    /\ mpc = "create"
    /\ \E ok \in BOOLEAN :
           /\ steps' = Append(steps, Step(pageIdx, "CreatePage", ok))
           /\ successCount' = Counted(successCount, ok)
    /\ NextPage
    /\ UNCHANGED <<file, pageVars, convVars, callVars, parVars, notionVars, parserVars,
                   pageList, markdown, report, outcome>>

\* logger.Info("Migration completed", ...)
MainLog ==
    /\ mpc = "log"
    /\ report' = [total_pages |-> Len(pageList), success_count |-> successCount,
                  failure_count |-> Len(pageList) - successCount]
    /\ mpc' = "done"
    /\ UNCHANGED <<file, pageVars, convVars, callVars, parVars, notionVars, parserVars,
                   pageList, pageIdx, markdown, successCount, steps, outcome>>

NextMain ==
    \/ MainGetPages
    \/ MainConvert
    \/ MainWriteFile
    \/ MainCreatePage
    \/ MainLog

\* main is one goroutine that runs on until it returns or panics
SpecMain == InitMain /\ [][NextMain]_vars /\ WF_vars(NextMain)

-----------------------------------------------------------------------------
(* What the claims speak of, stated on the input page by positions *)

\* the number of leading spaces and tabs of s
LeadingBlanks(s) ==
    Min({k \in 0..Len(s) : k = Len(s) \/ s[k + 1] \notin {SP, TAB}})

\* s without its leading spaces and tabs
Stripped(s) == SubSeq(s, LeadingBlanks(s) + 1, Len(s))

\* s occurs in t at position k (1-based)
OccursAt(t, s, k) == k >= 1 /\ k + Len(s) - 1 <= Len(t) /\ SubSeq(t, k, k + Len(s) - 1) = s

\* line k is the first line and repeats the title
TitleDup(k) == k = 1 /\ lines[1] = title

\* line k is a tag line: its first non-blank character is #
TagLine(k) == ~TitleDup(k) /\ OccursAt(lines[k], <<"#">>, LeadingBlanks(lines[k]) + 1)

\* line k is a code: line
CodeStart(k) ==
    /\ ~TitleDup(k)
    /\ ~TagLine(k)
    /\ OccursAt(lines[k], <<"c", "o", "d", "e", ":">>, LeadingBlanks(lines[k]) + 1)

\* line k is none of these
Plain(k) == ~TitleDup(k) /\ ~TagLine(k) /\ ~CodeStart(k)

\* line k is plain and does not begin with a space or tab
Unindented(k) == Plain(k) /\ LeadingBlanks(lines[k]) = 0

\* a code block is open when line k is met (k may be Len(lines) + 1, the end of input)
Open(k) == \E j \in 1..(k - 1) : CodeStart(j) /\ \A m \in (j + 1)..(k - 1) : ~Unindented(m)

\* line k is a body line of a code block
BodyOf(k) == Plain(k) /\ LeadingBlanks(lines[k]) > 0 /\ Open(k)

\* line k closes a code block
Closer(k) == Unindented(k) /\ Open(k)

\* the input ends in a code block with at least one body line
EndsInBlock ==
    /\ Open(Len(lines) + 1)
    /\ \E m \in 1..Len(lines) : BodyOf(m) /\ \A q \in (m + 1)..Len(lines) : ~Unindented(q)

\* the text a unit stands for, without its final newline
UnitText(u) ==
    IF u.kind = "line" THEN u.text
    ELSE <<BQ, BQ, BQ>> \o u.text \o <<NL>> \o Join(u.content, <<NL>>) \o <<NL, BQ, BQ, BQ>>

\* the units, each followed by one newline
RECURSIVE Flat(_)
Flat(us) == IF us = <<>> THEN <<>> ELSE UnitText(Head(us)) \o <<NL>> \o Flat(Tail(us))

\* the heading line and the blank line
Heading == <<"#", SP>> \o title \o <<NL, NL>>

\* the elements of the set S of numbers, in increasing order
RECURSIVE Ascending(_)
Ascending(S) == IF S = {} THEN <<>> ELSE <<Min(S)>> \o Ascending(S \ {Min(S)})

-----------------------------------------------------------------------------
(* C1 *)

\* C1: ConvertToMarkdown is total: whatever the page, it returns and never panics,
\* also on a line whose [** opener is followed by no space.
C1_NeverPanics == pc # "panic"

-----------------------------------------------------------------------------
(* C2 *)

\* C2: the result is the heading line, a blank line and then the translated body, every
\* emitted body line and fenced block ended by exactly one newline; a page whose only
\* line is its title yields the heading and the blank line and nothing else.
C2_Layout ==
    pc = "done" =>
        /\ md = Heading \o Flat(units)
        /\ \A k \in 1..Len(units) :
               /\ UnitText(units[k]) # <<>>
               /\ UnitText(units[k])[Len(UnitText(units[k]))] # NL
               /\ units[k].kind = "line" =>
                      units[k].text = convertLineToMarkdown(lines[units[k].lo], linksLc)
        /\ lines = <<title>> => md = <<"#", SP>> \o title \o <<NL, NL>>

\* a translation that ended with a body line and a fenced block in its output
C2_Witness ==
    /\ pc = "done"
    /\ \E k \in 1..Len(units) : units[k].kind = "line"
    /\ \E k \in 1..Len(units) : units[k].kind = "block"

-----------------------------------------------------------------------------
(* C3 *)

\* the lines the claim counts as a code-block run after a code: line: the lines that
\* follow it without a gap and begin with a space or tab
RunBody(k) ==
    /\ Plain(k)
    /\ \E j \in 1..(k - 1) :
           CodeStart(j) /\ \A m \in (j + 1)..k : Plain(m) /\ LeadingBlanks(lines[m]) > 0

\* C3 as stated: the body has one unit per input line, less the first line when it
\* repeats the title, less the tag lines, each code: line with its indented body lines
\* counting as one unit; no other line is dropped and no unit is added.
C3_CountAsStated ==
    pc = "done" =>
        Len(units) = Cardinality({k \in 1..Len(lines) : Plain(k) /\ ~RunBody(k)})
                         + Cardinality({k \in 1..Len(lines) : CodeStart(k)})

\* C3 amended: the body has one unit per input line, less (a) the first line when it
\* repeats the title, (b) the tag lines, (d) the empty lines, and with (c) each code
\* block, that is every code: line and indented body line from the code: line that
\* opens it up to the line that closes it or the end of the input, standing for one
\* unit, or for none when the input ends before any body line was buffered.
C3_Count ==
    pc = "done" =>
        Len(units) =
            Len(lines)
                - Cardinality({k \in 1..Len(lines) : TitleDup(k)})
                - Cardinality({k \in 1..Len(lines) : TagLine(k)})
                - Cardinality({k \in 1..Len(lines) : Plain(k) /\ lines[k] = <<>>})
                - Cardinality({k \in 1..Len(lines) : CodeStart(k) \/ BodyOf(k)})
                + Cardinality({k \in 1..Len(lines) : Closer(k)})
                + (IF EndsInBlock THEN 1 ELSE 0)

\* a translation that dropped an empty line, collapsed a code block with a body line
\* and kept a normal line
C3_Witness ==
    /\ pc = "done"
    /\ \E k \in 1..Len(lines) : Plain(k) /\ lines[k] = <<>>
    /\ \E k \in 1..Len(lines) : BodyOf(k)
    /\ \E k \in 1..Len(units) : units[k].kind = "block" /\ units[k].content # <<>>

-----------------------------------------------------------------------------
(* C4 *)

\* the body lines among the lines from..to, stripped, in input order
BodiesIn(from, to) ==
    LET at == Ascending({m \in from..to : BodyOf(m)})
    IN  [n \in 1..Len(at) |-> Stripped(lines[at[n]])]

\* C4: output order follows input order. At every moment of the translation the output
\* is the heading followed by the units in the order they were written; each unit comes
\* from lines after those of the unit before it; a body line's unit is the translation
\* of its line, and a fenced block stands where its run of code: and body lines stands,
\* holding the body lines of that run in input order.
C4_Order ==
    pc \in {"loop", "done"} =>
        /\ md = Heading \o Flat(units)
        /\ \A k \in 1..Len(units) :
               /\ 1 <= units[k].lo /\ units[k].lo <= units[k].hi /\ units[k].hi < i
               /\ k < Len(units) => units[k].hi < units[k + 1].lo
               /\ units[k].kind = "line" =>
                      /\ Plain(units[k].lo) /\ ~BodyOf(units[k].lo)
                      /\ units[k].text = convertLineToMarkdown(lines[units[k].lo], linksLc)
               /\ units[k].kind = "block" =>
                      /\ CodeStart(units[k].lo)
                      /\ \A m \in units[k].lo..units[k].hi :
                             CodeStart(m) \/ BodyOf(m) \/ TagLine(m)
                      /\ units[k].content = BodiesIn(units[k].lo, units[k].hi)

\* a finished translation whose output has a fenced block with a body line in it and,
\* after the block, the translation of the line that closed it
C4_Witness ==
    /\ pc = "done"
    /\ \E k \in 1..(Len(units) - 1) :
           /\ units[k].kind = "block" /\ units[k].content # <<>>
           /\ units[k + 1].kind = "line"
           /\ units[k + 1].lo = units[k].hi + 1

-----------------------------------------------------------------------------
(* C5 *)

\* the positions of line s where a word begins with # and goes on
TagStarts(s) ==
    {p \in 1..(Len(s) - 1) :
        /\ s[p] = "#"
        /\ (p = 1 \/ s[p - 1] \in WhiteSpace)
        /\ s[p + 1] \notin WhiteSpace}

\* the word of s that begins at position p, without its first character
WordAfter(s, p) ==
    LET stop == Min({e \in p..Len(s) : e = Len(s) \/ s[e + 1] \in WhiteSpace})
    IN  SubSeq(s, p + 1, stop)

\* the tags of line s, left to right
TagsOfLine(s) ==
    LET at == Ascending(TagStarts(s))
    IN  [n \in 1..Len(at) |-> WordAfter(s, at[n])]

\* the tags of the lines ls, top to bottom
RECURSIVE TagsOfLines(_)
TagsOfLines(ls) ==
    IF ls = <<>> THEN <<>> ELSE TagsOfLine(Head(ls)) \o TagsOfLines(Tail(ls))

\* C5: after ParseFile the page's tags are, line by line from the top and word by word
\* from the left, every whitespace-separated word that begins with # and has a character
\* after it, without that one #; nothing else, with duplicates kept, and no tag at all
\* when no word qualifies.
C5_Tags == pc # "parse" => tags = TagsOfLines(lines)

\* a parsed page with the same tag twice and a tag that keeps a second #
C5_Witness ==
    /\ pc = "convert"
    /\ \E a, b \in 1..Len(tags) : a < b /\ tags[a] = tags[b]
    /\ \E a \in 1..Len(tags) : tags[a] = <<"#", "g">>

-----------------------------------------------------------------------------
(* C6 *)

\* C6: a line is skipped as the title's duplicate exactly when it is the first line and
\* its text equals the title; a later line equal to the title, and a first line that
\* differs from it, go the way of any other line.
C6_TitleDedup ==
    \A k \in 1..Len(disp) :
        /\ disp[k] = "title" <=> (k = 1 /\ lines[1] = title)
        /\ disp[k] = "tag" <=> TagLine(k)
        /\ disp[k] = "code" <=> CodeStart(k)
        /\ disp[k] = "body" <=> BodyOf(k)
        /\ disp[k] = "exit" <=> Closer(k)
        /\ disp[k] = "line" <=> (Plain(k) /\ ~Open(k))

\* a page whose first line was skipped as the title and which has a later line, equal
\* to the title, that was translated
C6_Witness ==
    /\ Len(disp) >= 2
    /\ disp[1] = "title"
    /\ \E k \in 2..Len(disp) : lines[k] = title /\ disp[k] \in {"line", "exit", "code"}

-----------------------------------------------------------------------------
(* C7 *)

\* C7: for a non-empty line with N leading spaces or tabs, counted alike,
\* convertLineToMarkdown returns the inline-converted stripped text as it is when N = 0,
\* and after (N-1)*2 spaces and "- " when N >= 1.
C7_Indent ==
    (op = "convertLineToMarkdown" /\ text # <<>> /\ ret # Panic) =>
        LET N == LeadingBlanks(text)
            conv == convertSyntax(Stripped(text), links)
        IN  /\ N = 0 => ret = conv
            /\ N >= 1 =>
                   /\ Len(ret) = 2 * (N - 1) + 2 + Len(conv)
                   /\ \A k \in 1..(2 * (N - 1)) : ret[k] = SP
                   /\ ret[2 * N - 1] = "-"
                   /\ ret[2 * N] = SP
                   /\ SubSeq(ret, 2 * N + 1, Len(ret)) = conv

\* a line indented by a tab and a space whose text is inline-converted
C7_Witness ==
    /\ op = "convertLineToMarkdown"
    /\ text = <<TAB, SP, "[", "*", SP, "a", "]">>
    /\ ret = <<SP, SP, "-", SP, "*", "*", "a", "*", "*">>

-----------------------------------------------------------------------------
(* C8 *)

\* s is [ + L asterisks + space + ... + ]
HeadingForm(s, L) ==
    /\ Len(s) >= L + 3
    /\ s[1] = "["
    /\ \A k \in 2..(L + 1) : s[k] = "*"
    /\ s[L + 2] = SP
    /\ s[Len(s)] = "]"

\* C8: for stripped text [ + L asterisks + space + t + ] with L >= 2, convertSyntax
\* returns hashes + space + t, the hashes being #### for L = 2, ### for L = 3, ## for
\* L = 4 and #### for any other L; the opener and the closing ] are removed.
C8_Heading ==
    op = "convertSyntax" =>
        \A L \in 2..Len(text) :
            HeadingForm(Stripped(text), L) =>
                ret = (IF L = 3 THEN <<"#", "#", "#">>
                       ELSE IF L = 4 THEN <<"#", "#">>
                       ELSE <<"#", "#", "#", "#">>)
                          \o <<SP>> \o SubSeq(Stripped(text), L + 3, Len(Stripped(text)) - 1)

\* convertSyntax on a heading of five asterisks with a text
C8_Witness ==
    /\ op = "convertSyntax"
    /\ HeadingForm(text, 5)
    /\ ret = <<"#", "#", "#", "#", SP, "a">>

-----------------------------------------------------------------------------
(* C9 *)

\* the lines from..to, each without its leading spaces and tabs
StrippedLines(from, to) == [n \in 1..(to - from + 1) |-> Stripped(lines[from + n - 1])]

\* the text of a fenced block, without its final newline
FenceText(language, body) ==
    <<BQ, BQ, BQ>> \o language \o <<NL>> \o Join(body, <<NL>>) \o <<NL, BQ, BQ, BQ>>

\* s occurs somewhere in t
OccursIn(t, s) == \E p \in 1..(Len(t) - Len(s) + 1) : OccursAt(t, s, p)

\* the language ConvertToMarkdown takes from the code: line j
LanguageAt(j) ==
    IF OccursAt(lines[j], <<"c", "o", "d", "e", ":">>, 1)
    THEN TrimSpace(SubSeq(lines[j], 6, Len(lines[j])))
    ELSE TrimSpace(lines[j])

\* C9 as stated: a code: line followed by k >= 1 consecutive lines that begin with a
\* space or tab yields exactly one fenced block, whose body is these k lines, each with
\* only its leading spaces and tabs removed.
C9_CollapseAsStated ==
    pc = "done" =>
        \A j \in 1..Len(lines) : \A k \in 1..(Len(lines) - j) :
            (/\ CodeStart(j)
             /\ \A m \in (j + 1)..(j + k) : LeadingBlanks(lines[m]) > 0
             /\ (j + k = Len(lines) \/ LeadingBlanks(lines[j + k + 1]) = 0))
            => /\ Cardinality({n \in 1..Len(units) :
                       units[n].kind = "block" /\ units[n].lo <= j /\ j <= units[n].hi}) = 1
               /\ \A n \in 1..Len(units) :
                      (units[n].kind = "block" /\ units[n].lo <= j /\ j <= units[n].hi) =>
                          units[n].content = StrippedLines(j + 1, j + k)

\* C9 amended: a code: line followed by k >= 1 consecutive lines that begin with a space
\* or tab and are neither tag lines nor code: lines, and then by the end of the input or
\* by a line that closes the block, yields exactly one fenced block: three backquotes +
\* language + newline + body + newline + three backquotes, written once, where the body
\* ends with the k lines in input order, each with only its leading spaces and tabs
\* removed, and is exactly these k lines when no block was open at the code: line; no
\* body line is inline-converted or made a bullet.
C9_Collapse ==
    pc = "done" =>
        \A j \in 1..Len(lines) : \A k \in 1..(Len(lines) - j) :
            (/\ CodeStart(j)
             /\ \A m \in (j + 1)..(j + k) : Plain(m) /\ LeadingBlanks(lines[m]) > 0
             /\ (j + k = Len(lines) \/ Unindented(j + k + 1)))
            => /\ Cardinality({n \in 1..Len(units) : units[n].lo <= j + k /\ j <= units[n].hi}) = 1
               /\ \A n \in 1..Len(units) :
                      (units[n].lo <= j + k /\ j <= units[n].hi) =>
                          /\ units[n].kind = "block"
                          /\ units[n].hi = j + k
                          /\ units[n].text = LanguageAt(j)
                          /\ Len(units[n].content) >= k
                          /\ SubSeq(units[n].content, Len(units[n].content) - k + 1,
                                    Len(units[n].content)) = StrippedLines(j + 1, j + k)
                          /\ ~Open(j) => Len(units[n].content) = k
                          /\ OccursIn(md, <<NL>> \o FenceText(LanguageAt(j), units[n].content)
                                              \o <<NL>>)

\* a finished translation with a fenced block of two body lines, one of them with an
\* inline style and an inner space that were left as they are
C9_Witness ==
    /\ pc = "done"
    /\ \E n \in 1..Len(units) :
           /\ units[n].kind = "block"
           /\ Len(units[n].content) = 2
           /\ \E q \in 1..2 : units[n].content[q] = <<"[", "*", SP, "b", "]">>

-----------------------------------------------------------------------------
(* C10 *)

\* t with its first span opener ... ] replaced by mark + inner(the span's text) + mark,
\* the span running from the first occurrence of the opener to the first ] after it;
\* t itself when there is no such span
FirstSpan(t, opener, mark, inner(_)) ==
    LET starts == {p \in 1..Len(t) : OccursAt(t, opener, p)}
    IN  IF starts = {} THEN t
        ELSE LET from == Min(starts)
                 ends == {e \in from..Len(t) : t[e] = "]"}
             IN  IF ends = {} THEN t
                 ELSE SubSeq(t, 1, from - 1) \o mark
                          \o inner(SubSeq(t, from + Len(opener), Min(ends) - 1))
                          \o mark \o SubSeq(t, Min(ends) + 1, Len(t))

Same(x) == x

\* x with each doubled backslash, taken from the left, made a single one
RECURSIVE Undoubled(_)
Undoubled(x) ==
    IF Len(x) < 2 THEN x
    ELSE IF x[1] = BSL /\ x[2] = BSL THEN <<BSL>> \o Undoubled(SubSeq(x, 3, Len(x)))
    ELSE <<x[1]>> \o Undoubled(Tail(x))

\* strikethrough, bold and italic in this order
ThreeStyles(t) ==
    FirstSpan(
        FirstSpan(
            FirstSpan(t, <<"[", "-", SP>>, <<"~", "~">>, Same),
            <<"[", "*", SP>>, <<"*", "*">>, Same),
        <<"[", "/", SP>>, <<"_">>, Same)

IsHeading(s) == OccursAt(s, <<"[", "*", "*">>, 1)

\* C10 as stated: on the stripped text of a non-heading line the first [- x] becomes
\* ~~x~~, then the first [* x] becomes **x**, then the first [/ x] becomes _x_, then the
\* first [$ x] becomes $x$, each on the result of the step before; the link steps follow.
C10_StylesAsStated ==
    (op = "convertSyntax" /\ ~IsHeading(Stripped(text))) =>
        ret = convertLinks(FirstSpan(ThreeStyles(Stripped(text)), <<"[", "$", SP>>, <<"$">>, Same),
                           links)

\* C10 amended: as stated, except that the first [$ x] becomes $y$ where y is x with
\* each doubled backslash collapsed to a single backslash.
C10_Styles ==
    (op = "convertSyntax" /\ ~IsHeading(Stripped(text))) =>
        ret = convertLinks(FirstSpan(ThreeStyles(Stripped(text)), <<"[", "$", SP>>, <<"$">>,
                                     Undoubled),
                           links)

\* convertSyntax on a math span that holds a doubled backslash
C10_Witness ==
    /\ op = "convertSyntax"
    /\ text = <<"[", "$", SP, BSL, BSL, "a", "]">>
    /\ ret = <<"$", BSL, "a", "$">>

-----------------------------------------------------------------------------
(* Link resolution and image detection *)

\* the stripped text of a line after the four style steps
StyledText(t) ==
    FirstSpan(ThreeStyles(Stripped(t)), <<"[", "$", SP>>, <<"$">>, Undoubled)

\* the text convertPageLinks is given, when the call was made on the line text
LinkInput == StyledText(text)

\* the position of the first [ of s, 0 if there is none
FirstBracket(s) ==
    IF \A k \in 1..Len(s) : s[k] # "[" THEN 0 ELSE Min({k \in 1..Len(s) : s[k] = "["})

\* the bracket at position p opens a style or a heading
ReservedAt(s, p) ==
    \E o \in { <<"[", "-", SP>>, <<"[", "*", SP>>, <<"[", "$", SP>>, <<"[", "*", "*">>,
                <<"[", "/", SP>> } : OccursAt(s, o, p)

\* the first ] of s at or after position p, 0 if there is none
FirstCloseFrom(s, p) ==
    IF \A k \in p..Len(s) : s[k] # "]" THEN 0 ELSE Min({k \in p..Len(s) : s[k] = "]"})

\* s has a bracket span that is selected as a page link
LinkSelected(s) ==
    /\ FirstBracket(s) > 0
    /\ ~ReservedAt(s, FirstBracket(s))
    /\ FirstCloseFrom(s, FirstBracket(s)) > 0

\* the text T of the selected span
LinkTextOf(s) == SubSeq(s, FirstBracket(s) + 1, FirstCloseFrom(s, FirstBracket(s)) - 1)

\* T lower-cased, with each space made an underscore
LinkIdOf(s) ==
    ToLower([k \in 1..Len(LinkTextOf(s)) |->
                IF LinkTextOf(s)[k] = SP THEN "_" ELSE LinkTextOf(s)[k]])

\* the entries of the link targets that equal the id case-insensitively
Matching(s, ls) == {n \in 1..Len(ls) : ToLower(ls[n]) = ToLower(LinkIdOf(s))}

\* s with the selected span replaced by a markdown link to target
Resolved(s, target) ==
    SubSeq(s, 1, FirstBracket(s) - 1)
        \o <<"[">> \o LinkTextOf(s) \o <<"]", "(", ".", "/">> \o target \o <<".", "m", "d", ")">>
        \o SubSeq(s, FirstCloseFrom(s, FirstBracket(s)) + 1, Len(s))

\* C11: when convertPageLinks selects a bracket span [T] as a page link, with id T
\* lower-cased and its spaces made underscores: if some link target equals id
\* case-insensitively, the span becomes [T](./<target>.md) with the first such target as
\* stored; if none does, the whole text is returned unchanged.
C11_LinkResolution ==
    (op = "convertPageLinks" /\ LinkSelected(LinkInput)) =>
        IF Matching(LinkInput, links) # {}
        THEN ret = Resolved(LinkInput, links[Min(Matching(LinkInput, links))])
        ELSE ret = LinkInput

\* a span with a capital and a space, resolved to the first of two targets that differ
\* only in case
C11_Witness ==
    /\ op = "convertPageLinks"
    /\ text = <<"a", "[", "A", SP, "b", "]", "[", "x", "]">>
    /\ Len(links) = 3
    /\ ret = <<"a", "[", "A", SP, "b", "]", "(", ".", "/", "A", "_", "b", ".", "m", "d", ")",
               "[", "x", "]">>

\* the text convertExternalLinks is given, when the call was made on the line text
ImageInput ==
    IF LinkSelected(LinkInput) /\ Matching(LinkInput, links) # {}
    THEN Resolved(LinkInput, links[Min(Matching(LinkInput, links))])
    ELSE LinkInput

ImageExtensions ==
    { <<".", "j", "p", "g">>, <<".", "p", "n", "g">>, <<".", "g", "i", "f">>,
      <<".", "j", "p", "e", "g">> }

\* s starts with http and ends with one of the four extensions, letter for letter
IsImageAddress(s) ==
    /\ OccursAt(s, <<"h", "t", "t", "p">>, 1)
    /\ \E x \in ImageExtensions : OccursAt(s, x, Len(s) - Len(x) + 1)

ImageOf(s) == <<"!", "[", "i", "m", "a", "g", "e", "]", "(">> \o s \o <<")">>

\* C12: convertExternalLinks wraps the text as ![image](<text>) if and only if the whole
\* text, as the earlier inline steps left it, starts with http and ends with .jpg, .png,
\* .gif or .jpeg, compared case-sensitively; any other text passes through unchanged.
C12_Image ==
    op = "convertExternalLinks" =>
        /\ (ret = ImageOf(ImageInput)) <=> IsImageAddress(ImageInput)
        /\ ~IsImageAddress(ImageInput) => ret = ImageInput

\* an address that holds a page link: the link is resolved first, then the whole is wrapped
C12_Witness ==
    /\ op = "convertExternalLinks"
    /\ text = <<"h", "t", "t", "p", "[", "a", "]", ".", "p", "n", "g">>
    /\ ret = ImageOf(<<"h", "t", "t", "p", "[", "a", "]", "(", ".", "/", "a", ".", "m", "d", ")",
                       ".", "p", "n", "g">>)

-----------------------------------------------------------------------------
(* Purity and independence *)

\* the output of translating doc alone
Alone(doc) == RunAlone(InitFrame, doc).md

-----------------------------------------------------------------------------
(* Loading errors *)

\* ConvertToMarkdown has been entered
Translating == pc \in {"loop", "done", "panic"}

\* C14: ParseFile returns an error when the export is malformed and when its page lacks
\* the title, so that only a page that has its title is ever translated.
C14_Loading ==
    /\ (pc # "parse" /\ file \in {"malformed", "untitled"}) => pc = "exit"
    /\ Translating => file = "ok"

-----------------------------------------------------------------------------
(* CreatePage: idempotent creation, failures, the empty tag list *)

\* request k creates something
Creates(k) == calls[k].api \in {"Database.Create", "Page.Create"}

\* request k directly follows, in the same call, a successful request of the kind api
Follows(k, api) ==
    /\ k > 1
    /\ calls[k - 1].api = api
    /\ calls[k - 1].call = calls[k].call
    /\ calls[k - 1].ok

C16_Failure ==
    /\ \A k \in 1..Len(calls) :
         (calls[k].api = "Database.Create" /\ ~calls[k].ok) =>
             /\ Len(errs) >= calls[k].call
             /\ errs[calls[k].call] = "error"
             /\ \A j \in (k + 1)..Len(calls) :
                  calls[j].call = calls[k].call => calls[j].api # "Page.Create"
    /\ ctags = <<>> =>
           \A k \in 1..Len(calls) :
               /\ calls[k].api \in {"Search page", "Page.Create"}
               /\ calls[k].api = "Page.Create" =>
                      /\ calls[k].db = 0
                      /\ Follows(k, "Search page")
                      /\ calls[k - 1].found = <<>>

\* the creation of the database of the first of two tags failed: the call has returned
\* an error after two requests
C16_Witness ==
    /\ ctags = << <<"g">>, <<"g", "h">> >>
    /\ ncall = 1
    /\ errs = <<"error">>
    /\ Len(calls) = 2
    /\ calls[2].api = "Database.Create" /\ ~calls[2].ok

-----------------------------------------------------------------------------
(* Code-block language *)

\* what follows code: in the trimmed text of line j, trimmed
LanguageAfterPrefix(j) ==
    TrimSpace(SubSeq(TrimSpace(lines[j]), 6, Len(TrimSpace(lines[j]))))

\* the last code: line among the lines from..to
LastCodeStart(from, to) == CHOOSE j \in from..to : CodeStart(j) /\ \A m \in (j + 1)..to : ~CodeStart(m)

\* C17: when the loop has just taken a code: line, whether or not the line begins with
\* spaces or tabs, the language is what follows code: in its trimmed text, trimmed, and
\* nothing was written for the line; every fenced block that is written carries the
\* language so taken from the last code: line before its body.
C17_Language ==
    /\ (pc = "loop" /\ disp # <<>> /\ disp[Len(disp)] = "code") =>
           /\ codeLanguage = LanguageAfterPrefix(i - 1)
           /\ \A n \in 1..Len(units) : ~(units[n].lo <= i - 1 /\ i - 1 <= units[n].hi)
    /\ \A n \in 1..Len(units) :
           units[n].kind = "block" =>
               units[n].text = LanguageAfterPrefix(LastCodeStart(units[n].lo, units[n].hi))

-----------------------------------------------------------------------------
(* Single substitution per line *)

StyleOpeners == { <<"[", "-", SP>>, <<"[", "*", SP>>, <<"[", "/", SP>>, <<"[", "$", SP>> }

\* how often s occurs in t
Occurrences(t, s) == Cardinality({p \in 1..Len(t) : OccursAt(t, s, p)})

\* the first occurrence of s in t at or after position p, 0 if there is none
NextAt(t, s, p) ==
    IF \A k \in p..Len(t) : ~OccursAt(t, s, k) THEN 0
    ELSE Min({k \in p..Len(t) : OccursAt(t, s, k)})

\* the end of the first span of the style o in t, 0 if there is none
FirstSpanEnd(t, o) ==
    IF NextAt(t, o, 1) = 0 THEN 0 ELSE NextAt(t, <<"]">>, NextAt(t, o, 1))

\* t has a second span of the style o after its first one: where it begins and ends
SecondSpanStart(t, o) == IF FirstSpanEnd(t, o) = 0 THEN 0 ELSE NextAt(t, o, FirstSpanEnd(t, o))

SecondSpanEnd(t, o) ==
    IF SecondSpanStart(t, o) = 0 THEN 0 ELSE NextAt(t, <<"]">>, SecondSpanStart(t, o))

\* t holds no opener of a style other than o
OnlyStyle(t, o) == \A x \in StyleOpeners \ {o} : Occurrences(t, x) = 0

\* C18: convertSyntax substitutes each of the four styles at most once on a line: of the
\* openers of a style at most one is gone from the output; and on a line that is no
\* heading and holds one style only, with a second span of that style after the first,
\* exactly the first is substituted and the second stands in the output as it was written.
C18_Once ==
    (op = "convertSyntax" /\ ret # Panic) =>
        \A o \in StyleOpeners :
            /\ Occurrences(ret, o) >= Occurrences(Stripped(text), o) - 1
            /\ (/\ ~IsHeading(Stripped(text))
                /\ OnlyStyle(Stripped(text), o)
                /\ SecondSpanEnd(Stripped(text), o) > 0)
               => /\ Occurrences(ret, o) = Occurrences(Stripped(text), o) - 1
                  /\ ~OccursAt(ret, o, NextAt(Stripped(text), o, 1))
                  /\ OccursIn(ret, SubSeq(Stripped(text), SecondSpanStart(Stripped(text), o),
                                          SecondSpanEnd(Stripped(text), o)))

\* two math spans: the first is substituted and its backslashes collapsed, the second
\* stands as it was written
C18_Witness ==
    /\ op = "convertSyntax"
    /\ text = <<"[", "$", SP, BSL, BSL, "]", "a", "[", "$", SP, BSL, BSL, "]">>
    /\ ret = <<"$", BSL, "$", "a", "[", "$", SP, BSL, BSL, "]">>

-----------------------------------------------------------------------------
(* Malformed brackets *)

\* s holds one [ only, which opens a style, a heading or a link, and no ] after it
OneUnclosedBracket(s) ==
    /\ Occurrences(s, <<"[">>) = 1
    /\ FirstCloseFrom(s, FirstBracket(s)) = 0

\* C19: when the stripped text of a line holds a bracket opener, be it a style opener,
\* the heading opener or a plain [, and no ] after it, and no other bracket, convertSyntax
\* returns the text unchanged (an image address being wrapped whole).
C19_Literal ==
    (op = "convertSyntax" /\ OneUnclosedBracket(Stripped(text))) =>
        \/ ret = Stripped(text)
        \/ IsImageAddress(Stripped(text)) /\ ret = ImageOf(Stripped(text))

-----------------------------------------------------------------------------
(* Verbatim text *)

\* s begins and ends with a backquote
Quoted(s) == Len(s) >= 1 /\ s[1] = BQ /\ s[Len(s)] = BQ

\* C20 as stated: when the stripped line begins and ends with a backquote, convertSyntax
\* returns it unchanged: the output is the input.
C20_VerbatimAsStated ==
    (op = "convertSyntax" /\ Quoted(Stripped(text))) => ret = Stripped(text)

\* C20 amended: when the stripped line begins and ends with a backquote, convertSyntax
\* returns it with the four style steps applied and nothing else: no page link is
\* resolved and no image is wrapped; the output is the input when the line holds no
\* style span.
C20_Verbatim ==
    (op = "convertSyntax" /\ Quoted(Stripped(text))) =>
        /\ ret = StyledText(text)
        /\ (\A o \in StyleOpeners : FirstSpanEnd(Stripped(text), o) = 0) => ret = Stripped(text)

\* a quoted line with a page link and a bold span: the link is left, the span substituted
C20_Witness ==
    /\ op = "convertSyntax"
    /\ text = <<BQ, "[", "a", "]", "[", "*", SP, "a", "]", BQ>>
    /\ links # <<>>
    /\ ret = <<BQ, "[", "a", "]", "*", "*", "a", "*", "*", BQ>>

-----------------------------------------------------------------------------
(* Page-link location *)

\* the position of the first [ of s that no reserved opener follows, 0 if there is none
FirstPlainBracket(s) ==
    IF \A k \in 1..Len(s) : s[k] # "[" \/ ReservedAt(s, k) THEN 0
    ELSE Min({k \in 1..Len(s) : s[k] = "[" /\ ~ReservedAt(s, k)})

\* the text between the bracket at q and the first ] after it
LinkTextAt(s, q) == SubSeq(s, q + 1, FirstCloseFrom(s, q) - 1)

\* the entries of ls that equal, case-insensitively, that text lower-cased with its spaces
\* made underscores
MatchingAt(s, q, ls) ==
    {n \in 1..Len(ls) :
        ToLower(ls[n]) = ToLower([k \in 1..Len(LinkTextAt(s, q)) |->
                                     IF LinkTextAt(s, q)[k] = SP THEN "_" ELSE LinkTextAt(s, q)[k]])}

\* s with the bracket span at q resolved against ls, s itself when it cannot be
ResolveAt(s, q, ls) ==
    IF q = 0 \/ FirstCloseFrom(s, q) = 0 \/ MatchingAt(s, q, ls) = {} THEN s
    ELSE SubSeq(s, 1, q - 1)
             \o <<"[">> \o LinkTextAt(s, q) \o <<"]", "(", ".", "/">>
             \o ls[Min(MatchingAt(s, q, ls))] \o <<".", "m", "d", ")">>
             \o SubSeq(s, FirstCloseFrom(s, q) + 1, Len(s))

\* C21 as stated: the bracket that convertPageLinks resolves is the first [ of the text
\* that no reserved opener follows; a reserved opener earlier in the text is passed over.
C21_LocationAsStated ==
    op = "convertPageLinks" => ret = ResolveAt(LinkInput, FirstPlainBracket(LinkInput), links)

\* C21 amended: the bracket that convertPageLinks looks at is the first [ of the text; it
\* is resolved when no reserved opener follows it, and when one does nothing on the line
\* is resolved, whatever plain bracket comes later; at most one bracket span is resolved.
C21_Location ==
    op = "convertPageLinks" =>
        /\ ret = IF FirstBracket(LinkInput) > 0 /\ ~ReservedAt(LinkInput, FirstBracket(LinkInput))
                 THEN ResolveAt(LinkInput, FirstBracket(LinkInput), links)
                 ELSE LinkInput
        /\ Occurrences(ret, <<"]", "(", ".", "/">>)
               <= Occurrences(LinkInput, <<"]", "(", ".", "/">>) + 1

\* after the style steps a second bold span stands before a plain bracket with a known
\* target: the plain bracket is not resolved
C21_Witness ==
    /\ op = "convertPageLinks"
    /\ text = <<"[", "*", SP, "a", "]", "[", "*", SP, "a", "]", "[", "a", "]">>
    /\ links # <<>>
    /\ ret = <<"*", "*", "a", "*", "*", "[", "*", SP, "a", "]", "[", "a", "]">>

-----------------------------------------------------------------------------
(* Code-block exit *)

\* the unit written for the code block that line k closed: the one that ends at k - 1
BlockBefore(k) == CHOOSE n \in 1..Len(units) : units[n].kind = "block" /\ units[n].hi = k - 1

\* C22 as stated: while a code block is open, every line that does not begin with a space
\* or tab ends the block.
C22_ExitAsStated ==
    pc \in {"loop", "done"} =>
        \A k \in 1..(i - 1) :
            (k <= Len(lines) /\ Open(k) /\ LeadingBlanks(lines[k]) = 0) => disp[k] = "exit"

\* C22 amended: while a code block is open, a line that is neither a tag line nor a code:
\* line and does not begin with a space or tab ends the block: the fenced block is
\* written, flag, language and buffer are cleared, and the same line is translated as a
\* normal line; when that translation returns a text that is not empty it is written
\* right after the fenced block, and when it returns the empty text nothing is written
\* for the line.
C22_Exit ==
    pc \in {"loop", "done"} =>
        \A k \in 1..(i - 1) :
            (k <= Len(lines) /\ Closer(k)) =>
                /\ disp[k] = "exit"
                /\ \E n \in 1..Len(units) : units[n].kind = "block" /\ units[n].hi = k - 1
                /\ IF convertLineToMarkdown(lines[k], linksLc) = <<>>
                   THEN \A n \in 1..Len(units) : units[n].lo # k
                   ELSE /\ BlockBefore(k) < Len(units)
                        /\ units[BlockBefore(k) + 1] =
                               [kind |-> "line",
                                text |-> convertLineToMarkdown(lines[k], linksLc),
                                content |-> <<>>, lo |-> k, hi |-> k]
                        /\ OccursIn(md, <<NL>> \o UnitText(units[BlockBefore(k)]) \o <<NL>>
                                            \o convertLineToMarkdown(lines[k], linksLc)
                                            \o <<NL>>)
                /\ k = i - 1 => (~codeBlock /\ codeLanguage = <<>> /\ codeContent = <<>>)

\* a block with one body line was closed by a line with a page link, which was written
\* right after it
C22_Witness ==
    /\ pc = "loop"
    /\ lines = << CodePrefix \o <<"j">>, <<TAB, SP, "a">>, <<"[", "a", "]", SP, "#", "g">> >>
    /\ i = 4
    /\ ~codeBlock
    /\ Len(units) = 2
    /\ units[1].kind = "block"
    /\ units[2].text = <<"[", "a", "]", "(", ".", "/", "a", ".", "m", "d", ")", SP, "#", "g">>

-----------------------------------------------------------------------------
(* End-of-input flush *)

\* t ends with s
EndsWith(t, s) == Len(s) <= Len(t) /\ SubSeq(t, Len(t) - Len(s) + 1, Len(t)) = s

\* the body lines buffered since the code: line that opened the block still open at the
\* end of the input
OpenBody ==
    BodiesIn(Min({j \in 1..Len(lines) : CodeStart(j) /\ \A m \in (j + 1)..Len(lines) : ~Unindented(m)}),
             Len(lines))

\* a fenced block was written for the lines up to the end of the input
Flushed == \E n \in 1..Len(units) : units[n].kind = "block" /\ units[n].hi = Len(lines)

\* C23: when the input ends while a code block is open, a fenced block is written if and
\* only if the buffer is not empty; its text is three backquotes, the language, a
\* newline, the buffered lines joined by newlines, a newline and three backquotes, ended
\* by a newline, as on the exit path, and it is the last thing in the output. When no
\* block is open at the end nothing is written there.
C23_Flush ==
    pc = "done" =>
        /\ codeBlock = Open(Len(lines) + 1)
        /\ Flushed <=> (Open(Len(lines) + 1) /\ OpenBody # <<>>)
        /\ Flushed =>
               /\ units[Len(units)].kind = "block"
               /\ units[Len(units)].hi = Len(lines)
               /\ units[Len(units)].content = OpenBody
               /\ units[Len(units)].text = codeLanguage
               /\ EndsWith(md, <<NL>> \o FenceText(codeLanguage, OpenBody) \o <<NL>>)

\* the input ended inside a block with one body line, which was written last
C23_Witness ==
    /\ pc = "done"
    /\ lines = << <<"[", "a", "]", SP, "#", "g">>, CodePrefix \o <<"j">>,
                  <<SP, "[", "*", SP, "b", "]">> >>
    /\ Len(units) = 2
    /\ units[2].kind = "block"
    /\ EndsWith(md, <<NL, BQ, BQ, BQ, "j", NL, "[", "*", SP, "b", "]", NL, BQ, BQ, BQ, NL>>)

-----------------------------------------------------------------------------
(* Tag-line filter precedence *)

\* the loop is at a line whose first character after its spaces and tabs is #
AtTagLine ==
    /\ pc = "loop"
    /\ i <= Len(lines)
    /\ OccursAt(lines[i], <<"#">>, LeadingBlanks(lines[i]) + 1)

\* C24: a line whose trimmed text starts with # is skipped entirely: the step that takes
\* it goes on to the next line and leaves the output and the code-block state (flag,
\* language, buffer) as they are, also inside an open code block, where the line is
\* neither appended to the buffer nor ends the block; nothing is ever written for it.
C24_TagPrecedence ==
    /\ [][AtTagLine =>
            /\ i' = i + 1
            /\ pc' = pc
            /\ UNCHANGED <<md, units, codeBlock, codeLanguage, codeContent>>]_vars
    /\ [](\A k \in 1..Len(disp) :
             OccursAt(lines[k], <<"#">>, LeadingBlanks(lines[k]) + 1) =>
                 /\ disp[k] \in {"tag", "title"}
                 /\ \A n \in 1..Len(units) : units[n].kind = "line" => units[n].lo # k)

\* inside an open block with one buffered line an unindented and an indented tag line
\* were passed: the block is still open and its buffer as it was
C24_Witness ==
    /\ pc = "loop"
    /\ lines = << CodePrefix \o <<"j">>, <<SP, "[", "*", SP, "b", "]">>, <<"#", "g">> >>
    /\ i = 4
    /\ codeBlock
    /\ codeLanguage = <<"j">>
    /\ codeContent = << <<"[", "*", SP, "b", "]">> >>
    /\ units = <<>>

-----------------------------------------------------------------------------
(* Empty text emits nothing *)

\* line k is translated as a normal line
NormalAt(k) == Plain(k) /\ ~BodyOf(k)

\* C25: a normal line produces no output line whenever its text, after stripping the
\* leading spaces and tabs and applying the inline conversion, is empty; this covers the
\* empty line and every line made of spaces and tabs only.
C25_EmptyEmitsNothing ==
    pc \in {"loop", "done"} =>
        \A k \in 1..Len(disp) :
            (NormalAt(k) /\ convertSyntax(Stripped(lines[k]), linksLc) = <<>>) =>
                \A n \in 1..Len(units) : units[n].kind = "line" => units[n].lo # k

-----------------------------------------------------------------------------
(* Heading short-circuit *)

\* where the heading text of s ends: before its final ] if it has one
HeadingEnd(s) == IF s # <<>> /\ s[Len(s)] = "]" THEN Len(s) - 1 ELSE Len(s)

\* r is two to four hashes, a space and a piece of s taken as it stands up to HeadingEnd(s)
PieceOf(r, s) ==
    \E n \in 2..4 : \E a \in 1..(Len(s) + 1) :
        r = [k \in 1..n |-> "#"] \o <<SP>> \o SubSeq(s, a, HeadingEnd(s))

\* C26: when the stripped text starts with [** the heading conversion is the only inline
\* step: the result is the hashes, a space and the heading text exactly as it stands in
\* the input, with no strikethrough, bold, italic, math, page-link or image conversion
\* applied to it, even if it holds such spans or a bracket that names a link target.
C26_HeadingOnly ==
    (op = "convertSyntax" /\ IsHeading(Stripped(text)) /\ ret # Panic) =>
        PieceOf(ret, Stripped(text))

\* a heading whose text is a bracket that names a link target: the bracket is left alone
C26_Witness ==
    /\ op = "convertSyntax"
    /\ text = <<"[", "*", "*", SP, "[", "a", "]", "]">>
    /\ \E k \in 1..Len(links) : links[k] = <<"a">>
    /\ ret = <<"#", "#", "#", "#", SP, "[", "a", "]">>

-----------------------------------------------------------------------------
(* Code blocks are not merged *)

\* the nearest code: line before line m
NearestCode(m) == CHOOSE j \in 1..(m - 1) : CodeStart(j) /\ \A q \in (j + 1)..(m - 1) : ~CodeStart(q)

\* the code: line j is met while a block with at least one body line is open
Reopens(j) ==
    /\ CodeStart(j)
    /\ Open(j)
    /\ \E m \in 1..(j - 1) : BodyOf(m) /\ NearestCode(m) = NearestCode(j)

\* C27: every body line is written inside a fenced block whose language is the one taken
\* from the nearest code: line before it; a code: line met while a block is open closes
\* that block and writes it, with its own language and body, before the new block
\* starts, so the body lines of two code: lines never share a block.
C27_NoMerge ==
    pc \in {"loop", "done"} =>
        /\ \A n \in 1..Len(units) : \A m \in 1..Len(lines) :
               (units[n].kind = "block" /\ units[n].lo <= m /\ m <= units[n].hi /\ BodyOf(m)) =>
                   /\ units[n].text = LanguageAt(NearestCode(m))
                   /\ units[n].lo = NearestCode(m)
        /\ \A j \in 1..Len(disp) :
               Reopens(j) =>
                   \E n \in 1..Len(units) :
                       /\ units[n].kind = "block"
                       /\ units[n].hi = j - 1
                       /\ units[n].text = LanguageAt(NearestCode(j))

-----------------------------------------------------------------------------
(* Fenced blocks with an empty body *)

\* a body line was buffered for the block that is open when line k is met
BodyBefore(k) == \E m \in 1..(k - 1) : BodyOf(m) /\ \A q \in (m + 1)..(k - 1) : ~Unindented(q)

\* C28 as stated: no fenced block is ever written with an empty body.
C28_NeverEmptyAsStated ==
    pc \in {"loop", "done"} =>
        \A n \in 1..Len(units) : units[n].kind = "block" => units[n].content # <<>>

\* C28 amended: a fenced block with an empty body is written only on the exit path. A
\* code: line followed by no body line and then by a line that ends the block yields the
\* block three backquotes + language + newline + newline + three backquotes; a code: line
\* followed by no body line up to the end of the input yields no fenced block.
C28_EmptyBody ==
    pc \in {"loop", "done"} =>
        /\ \A n \in 1..Len(units) :
               (units[n].kind = "block" /\ units[n].content = <<>>) =>
                   /\ units[n].hi < Len(lines)
                   /\ Closer(units[n].hi + 1)
                   /\ ~BodyBefore(units[n].hi + 1)
                   /\ OccursIn(md, <<NL>> \o FenceText(units[n].text, <<>>) \o <<NL>>)
        /\ \A k \in 1..Len(disp) :
               (Closer(k) /\ ~BodyBefore(k)) =>
                   \E n \in 1..Len(units) :
                       units[n].kind = "block" /\ units[n].hi = k - 1 /\ units[n].content = <<>>
        /\ (pc = "done" /\ Open(Len(lines) + 1) /\ ~BodyBefore(Len(lines) + 1)) =>
               \A n \in 1..Len(units) : units[n].hi < Len(lines)

\* a code: line followed at once by a line that ends the block, and a code: line that is
\* the last line: one block with an empty body, then the line, and nothing at the end
C28_Witness ==
    /\ pc = "done"
    /\ lines = << CodePrefix \o <<"j">>, <<"[", "a", "]", SP, "#", "g">>, CodePrefix \o <<"j">> >>
    /\ Len(units) = 2
    /\ units[1].kind = "block" /\ units[1].content = <<>> /\ units[1].text = <<"j">>
    /\ units[2].kind = "line"

-----------------------------------------------------------------------------
(* The migration loop *)

\* the calls of c that main made, in the order it made them
CallsOf(c) == SelectSeq(steps, LAMBDA st : st.call = c)

\* the pages for which both the write and CreatePage succeeded
Migrated ==
    {n \in 1..Len(GetPages(export)) :
        /\ \E k \in 1..Len(steps) : steps[k] = Step(n, "WriteFile", TRUE)
        /\ \E k \in 1..Len(steps) : steps[k] = Step(n, "CreatePage", TRUE)}

\* every page was translated and written once, in the order of the export
EachOnce ==
    /\ Len(CallsOf("ConvertToMarkdown")) = Len(GetPages(export))
    /\ Len(CallsOf("WriteFile")) = Len(GetPages(export))
    /\ \A n \in 1..Len(GetPages(export)) :
           /\ CallsOf("ConvertToMarkdown")[n].page = n
           /\ CallsOf("WriteFile")[n].page = n

\* CreatePage is called right after the successful write of the same page only
CreateAfterWrite ==
    \A k \in 1..Len(steps) :
        steps[k].call = "CreatePage" =>
            k > 1 /\ steps[k - 1] = Step(steps[k].page, "WriteFile", TRUE)

\* C29: in the migration loop every parsed page is processed exactly once, in the order of
\* the export, whatever failed on the pages before it; CreatePage is called for a page
\* only after its markdown file was written; and in the end success_count is the number
\* of pages for which both the write and CreatePage succeeded, and success_count +
\* failure_count is the number of pages.
C29_Loop ==
    /\ [](CreateAfterWrite)
    /\ <>(/\ mpc = "done"
          /\ EachOnce
          /\ report.success_count = Cardinality(Migrated)
          /\ report.success_count + report.failure_count = Len(GetPages(export))
          /\ report.total_pages = Len(GetPages(export)))

-----------------------------------------------------------------------------
(* ParseFile and the parser's state *)

\* C30: a call of ParseFile that returns an error, for a file that cannot be read or is
\* not valid JSON, leaves what GetPages returns as it was before the call, nothing if no
\* file was parsed before; a call that returns nil replaces the pages by exactly those
\* of the new export, each with its Tags taken from its own lines.
C30_FailedParse ==
    /\ perr \in {"read", "json"} => GetPages(export) = before
    /\ perr = "nil" =>
           /\ Len(GetPages(export)) = Len(given.pages)
           /\ \A n \in 1..Len(given.pages) :
                  /\ GetPages(export)[n].title = given.pages[n].title
                  /\ GetPages(export)[n].lines = given.pages[n].lines
                  /\ GetPages(export)[n].linksLc = given.pages[n].linksLc
                  /\ GetPages(export)[n].tags = TagsOfLines(given.pages[n].lines)
====
